---------------------------- MODULE Spec2Model ----------------------------
(***************************************************************************)
(* A model of claude-evolve: the CSV ledger (lib/evolution_csv.py), the    *)
(* worker (lib/evolve_worker.py), the dispatcher (lib/evolve_run.py) and   *)
(* the ideation pass (lib/evolve_ideate.py), the sandbox harness           *)
(* (lib/sandbox_wrapper.py) and the model gateway (lib/ai_cli.py).         *)
(*                                                                         *)
(* These specifications share the module's variables:                      *)
(*   SpecLedger  the ledger operations applied one at a time to a ledger   *)
(*               drawn from a bounded set of contents;                     *)
(*   SpecLock    processes that claim rows through the lock file's         *)
(*               open / flock / unlock / close / unlink steps;             *)
(*   Spec        the dispatcher with its worker processes, signals,        *)
(*               deaths and the artifacts on disk.                         *)
(*   SpecIdeate  the startup preamble followed by claims, status updates   *)
(*               and ideation passes on the ledger.                        *)
(*   SpecProcess one worker processing one candidate whose target file     *)
(*               may already exist;                                        *)
(*   SpecPending the pending predicate, the pending list and the counts    *)
(*               on ledgers with malformed statuses;                       *)
(*   SpecCleanup the operations of the startup cleanup;                    *)
(*   SpecNextIds get_next_ids on ledgers with malformed ids;               *)
(*   SpecNovelty an ideation pass with the novelty filter on;              *)
(*   SpecEvaluate the evaluator's run and the parsing of its output;       *)
(*   SpecSandbox run_sandboxed: the child, the main thread and the memory  *)
(*               monitor thread;                                           *)
(*   SpecBackoff call_ai_with_backoff and the worker's handling of its     *)
(*               outcome (SpecBackoffFair: with the worker scheduled);     *)
(*   SpecPool    the dispatcher's loop with its WorkerPool and process     *)
(*               ids;                                                      *)
(*   SpecBaseline a run from an empty ledger without faults, with the      *)
(*               dispatcher and the workers scheduled;                     *)
(*   SpecTree    the memory monitors' sums over the process tree           *)
(*               (lib/memory_limit_wrapper.py, lib/sandbox_wrapper.py);    *)
(*   SpecMeta    Meta-Learning's analyze_generation                        *)
(*               (lib/meta_learning.py).                                   *)
(***************************************************************************)
EXTENDS Integers, Sequences, FiniteSets, TLC

\* ------------------------------------------------------------------ bounds

\* SpecLedger: the most data rows of an initial ledger.
MaxRows == 2
\* SpecLock: the number of processes and the claims each of them makes.
NumProcs == 2
MaxClaims == 2
\* Spec: the configuration. max_workers worker slots, max_candidates
\* candidates per worker, max_validation_retries fix attempts, and
\* min_completed_for_ideation complete rows before the first ideation.
max_workers == 2
max_candidates == 1
max_validation_retries == 1
min_completed_for_ideation == 1
\* Spec: the most data rows the ledger grows to, and the most signals, kills
\* and lock timeouts of a run.
MaxLedgerRows == 2
MaxFaults == 1
\* SpecIdeate: the most data rows the ledger grows to.
MaxIdeaRows == 3

\* --------------------------------------------------------- python strings
\* Strings are TLA+ strings; the str methods the code uses are computed
\* character by character.

IsWs(c) == c \in {" ", "\t", "\n", "\r"}

RECURSIVE lstrip(_)
lstrip(s) ==
    IF Len(s) = 0 THEN s
    ELSE IF IsWs(SubSeq(s, 1, 1)) THEN lstrip(SubSeq(s, 2, Len(s))) ELSE s

RECURSIVE rstrip(_)
rstrip(s) ==
    IF Len(s) = 0 THEN s
    ELSE IF IsWs(SubSeq(s, Len(s), Len(s))) THEN rstrip(SubSeq(s, 1, Len(s) - 1)) ELSE s

\* The strings the ledgers of the model hold. A method applied to one of
\* them is looked up in a table TLC computes once, with the definition that
\* computes it for any other string.
MemoStrings ==
    {"", "id", "ID", "basedOnId", "description", "performance", "status",
     "baseline-000", "gen01-001", " gen01-001", "gen01-002", "gen02-001", "gen02-002",
     "gen00-001", "d", "idea", "Original algorithm.py performance",
     "[PLACEHOLDER: Replace with algorithmic idea]", "0.5", "1.5", "2.5",
     "pending", "running", " running ", "Running", "complete", "failed",
     "failed-validation", "failed-retry1", "skipped", "pending gen08-013",
     "complete\nfoo", "complete foo", "failed-ai-retry", "failed-parent-missing"}

strip_memo == [s \in MemoStrings |-> rstrip(lstrip(s))]

\* str.strip()
strip(s) == IF s \in MemoStrings THEN strip_memo[s] ELSE rstrip(lstrip(s))

RECURSIVE lstrip_quote(_)
lstrip_quote(s) ==
    IF Len(s) = 0 THEN s
    ELSE IF SubSeq(s, 1, 1) = "\"" THEN lstrip_quote(SubSeq(s, 2, Len(s))) ELSE s

RECURSIVE rstrip_quote(_)
rstrip_quote(s) ==
    IF Len(s) = 0 THEN s
    ELSE IF SubSeq(s, Len(s), Len(s)) = "\"" THEN rstrip_quote(SubSeq(s, 1, Len(s) - 1)) ELSE s

clean_id_memo == [s \in MemoStrings |-> rstrip_quote(lstrip_quote(strip(s)))]

\* str.strip().strip('"'), the cleaning every id comparison applies
clean_id(s) ==
    IF s \in MemoStrings THEN clean_id_memo[s] ELSE rstrip_quote(lstrip_quote(strip(s)))

lower_char(c) ==
    CASE c = "A" -> "a" [] c = "B" -> "b" [] c = "C" -> "c" [] c = "D" -> "d"
      [] c = "E" -> "e" [] c = "F" -> "f" [] c = "G" -> "g" [] c = "H" -> "h"
      [] c = "I" -> "i" [] c = "J" -> "j" [] c = "K" -> "k" [] c = "L" -> "l"
      [] c = "M" -> "m" [] c = "N" -> "n" [] c = "O" -> "o" [] c = "P" -> "p"
      [] c = "Q" -> "q" [] c = "R" -> "r" [] c = "S" -> "s" [] c = "T" -> "t"
      [] c = "U" -> "u" [] c = "V" -> "v" [] c = "W" -> "w" [] c = "X" -> "x"
      [] c = "Y" -> "y" [] c = "Z" -> "z" [] OTHER -> c

RECURSIVE lower_chars(_)
lower_chars(s) ==
    IF Len(s) = 0 THEN s
    ELSE lower_char(SubSeq(s, 1, 1)) \o lower_chars(SubSeq(s, 2, Len(s)))

lower_memo == [s \in MemoStrings |-> lower_chars(s)]

\* str.lower()
lower(s) == IF s \in MemoStrings THEN lower_memo[s] ELSE lower_chars(s)

\* str.startswith(p)
startswith(s, p) == Len(s) >= Len(p) /\ SubSeq(s, 1, Len(p)) = p

RECURSIVE join_split(_)
\* ' '.join(s.split()) of a string without leading whitespace: every run of
\* whitespace becomes one space and trailing whitespace is dropped
join_split(s) ==
    IF Len(s) = 0 THEN s
    ELSE IF IsWs(SubSeq(s, 1, 1))
         THEN LET rest == lstrip(s)
              IN  IF Len(rest) = 0 THEN rest ELSE " " \o join_split(rest)
         ELSE SubSeq(s, 1, 1) \o join_split(SubSeq(s, 2, Len(s)))

\* The cleaning of is_pending_candidate and cleanup_corrupted_status_fields:
\* strip, CR/LF/TAB to spaces, whitespace runs collapsed.
clean_status_memo == [s \in MemoStrings |-> join_split(strip(s))]

clean_status(s) == IF s \in MemoStrings THEN clean_status_memo[s] ELSE join_split(strip(s))

\* float(s) succeeds; the model's performance strings are these and "".
is_float(s) == strip(s) \in {"0.5", "1.5", "2.5"}

\* ------------------------------------------------------------- the ledger
\* The ledger file is the sequence of its CSV rows, the header row included.
\* A row is a record of its first five columns; a column the row does not
\* have reads as "", which is what every reader of the code substitutes.

Row(i, b, d, p, s) == [id |-> i, based |-> b, desc |-> d, perf |-> p, status |-> s]

HeaderRow == Row("id", "basedOnId", "description", "performance", "status")

None == [none |-> TRUE]

has_header(rows) == Len(rows) > 0 /\ lower(rows[1].id) = "id"

\* start_idx of the code, 0-based: the data rows are rows[start_idx(rows)+1 ..].
start_idx(rows) == IF has_header(rows) THEN 1 ELSE 0

DataIdx(rows) == (start_idx(rows) + 1)..Len(rows)

\* The rows with indices in S, in file order.
RECURSIVE RowsAt(_, _, _)
RowsAt(rows, S, i) ==
    IF i > Len(rows) THEN <<>>
    ELSE (IF i \in S THEN <<rows[i]>> ELSE <<>>) \o RowsAt(rows, S, i + 1)

is_valid_candidate_row(row) == strip(row.id) # ""

\* A pending predicate that also takes a running row for available.
is_pending_or_running(row) ==
    /\ is_valid_candidate_row(row)
    /\ LET status == lower(clean_status(row.status))
       IN  \/ status \in {"", "pending", "running"}
           \/ startswith(status, "pending ")
           \/ startswith(status, "failed-retry")

is_pending_candidate(row) ==
    /\ is_valid_candidate_row(row)
    /\ LET status == lower(clean_status(row.status))
       IN  \/ status = ""
           \/ status = "pending"
           \/ startswith(status, "pending ")
           \/ startswith(status, "failed-retry")

RECURSIVE pending_from(_, _)
\* The loop of get_pending_candidates from row i down to the first data row.
pending_from(rows, i) ==
    IF i <= start_idx(rows) THEN <<>>
    ELSE (IF is_pending_candidate(rows[i])
          THEN <<[id |-> clean_id(rows[i].id), status |-> strip(rows[i].status)]>>
          ELSE <<>>) \o pending_from(rows, i - 1)

\* get_pending_candidates: (id, status) of the pending rows, last row first.
get_pending_candidates(rows) == pending_from(rows, Len(rows))

\* The index get_next_pending_candidate picks: the last pending data row, 0 if none.
NextPendingIdx(rows) ==
    LET P == {i \in DataIdx(rows) : is_pending_candidate(rows[i])}
    IN  IF P = {} THEN 0 ELSE CHOOSE i \in P : \A j \in P : j <= i

Matches(row, candidate_id) ==
    is_valid_candidate_row(row) /\ clean_id(row.id) = clean_id(candidate_id)

\* A claim that marks the picked id running the way update_candidate_status
\* would: in every row that carries the id.
claim_every_match(rows) ==
    LET i == NextPendingIdx(rows)
    IN  IF i = 0
        THEN [rows |-> rows, result |-> None]
        ELSE [rows |-> [k \in 1..Len(rows) |->
                          IF k \in DataIdx(rows) /\ Matches(rows[k], rows[i].id)
                          THEN [rows[k] EXCEPT !.status = "running"] ELSE rows[k]],
              result |-> [id |-> clean_id(rows[i].id), status |-> strip(rows[i].status)]]

\* get_next_pending_candidate: the rows it writes back and what it returns.
get_next_pending_candidate(rows) ==
    LET i == NextPendingIdx(rows)
    IN  IF i = 0
        THEN [rows |-> rows, result |-> None]
        ELSE [rows |-> [rows EXCEPT ![i].status = "running"],
              result |-> [id |-> clean_id(rows[i].id), status |-> strip(rows[i].status)]]

update_candidate_status(rows, candidate_id, new_status) ==
    [i \in 1..Len(rows) |->
        IF i \in DataIdx(rows) /\ Matches(rows[i], candidate_id)
        THEN [rows[i] EXCEPT !.status = new_status]
        ELSE rows[i]]

update_candidate_performance(rows, candidate_id, performance) ==
    [i \in 1..Len(rows) |->
        IF i \in DataIdx(rows) /\ Matches(rows[i], candidate_id)
        THEN [rows[i] EXCEPT !.perf = performance]
        ELSE rows[i]]

get_candidate_info(rows, candidate_id) ==
    LET M == {i \in DataIdx(rows) : Matches(rows[i], candidate_id)}
    IN  IF M = {} THEN None
        ELSE LET row == rows[CHOOSE i \in M : \A j \in M : i <= j]
             IN  [id |-> clean_id(row.id), basedOnId |-> strip(row.based),
                  description |-> strip(row.desc), performance |-> strip(row.perf),
                  status |-> strip(row.status)]

valid_statuses ==
    {"", "pending", "complete", "failed", "failed-ai-retry", "failed-retry1",
     "failed-retry2", "failed-retry3", "skipped", "failed-parent-missing", "running"}

\* A reset that trusts valid_statuses, which lists running, and so resets
\* the unknown statuses only.
reset_unknown_only(status) ==
    IF strip(status) \notin valid_statuses THEN "pending" ELSE status

\* What reset_stuck_candidates makes of one status field.
reset_status(status) ==
    IF strip(status) = "running" THEN "pending"
    ELSE IF strip(status) \notin valid_statuses THEN "pending"
    ELSE status

reset_stuck_candidates(rows) ==
    [i \in 1..Len(rows) |->
        IF i \in DataIdx(rows)
        THEN [rows[i] EXCEPT !.status = reset_status(rows[i].status)]
        ELSE rows[i]]

\* A removal that keeps the last row of each id: a data row goes when a later
\* data row has the same cleaned id.
remove_earlier_duplicates(rows) ==
    LET dup(i) == \E j \in DataIdx(rows) : j > i /\ clean_id(rows[j].id) = clean_id(rows[i].id)
    IN  RowsAt(rows, {i \in 1..Len(rows) : ~(i \in DataIdx(rows) /\ dup(i))}, 1)

\* remove_duplicate_candidates: a data row goes when an earlier data row has
\* the same cleaned id.
remove_duplicate_candidates(rows) ==
    LET dup(i) == \E j \in DataIdx(rows) : j < i /\ clean_id(rows[j].id) = clean_id(rows[i].id)
    IN  RowsAt(rows, {i \in 1..Len(rows) : ~(i \in DataIdx(rows) /\ dup(i))}, 1)

corrupt_prefixes == <<"pending", "running", "complete", "failed", "skipped">>

\* What cleanup_corrupted_status_fields makes of one status field: the first
\* valid status that the cleaned field starts with, followed by a space.
fixed_status(status) ==
    LET cleaned == lower(clean_status(status))
        H == {k \in 1..Len(corrupt_prefixes) : startswith(cleaned, corrupt_prefixes[k] \o " ")}
    IN  IF status = "" \/ H = {} THEN status
        ELSE corrupt_prefixes[CHOOSE k \in H : \A l \in H : k <= l]

cleanup_corrupted_status_fields(rows) ==
    [i \in 1..Len(rows) |->
        IF i \in DataIdx(rows)
        THEN [rows[i] EXCEPT !.status = fixed_status(rows[i].status)]
        ELSE rows[i]]

\* append_candidates: the header is ensured, then the rows are appended.
append_candidates(rows, candidates) ==
    IF Len(candidates) = 0 THEN rows
    ELSE (IF Len(rows) = 0 \/ lower(rows[1].id) # "id" THEN <<HeaderRow>> ELSE <<>>)
         \o rows \o candidates

\* Statistics that count as pending the rows whose status reads pending.
stats_by_status(rows) ==
    LET V == {i \in DataIdx(rows) : is_valid_candidate_row(rows[i])}
        st(i) == lower(strip(rows[i].status))
    IN  [total |-> Cardinality(V),
         pending |-> Cardinality({i \in V : st(i) = "pending"}),
         complete |-> Cardinality({i \in V : st(i) = "complete"}),
         running |-> Cardinality({i \in V : st(i) = "running"}),
         failed |-> Cardinality({i \in V : startswith(st(i), "failed")})]

get_csv_stats(rows) ==
    LET V == {i \in DataIdx(rows) : is_valid_candidate_row(rows[i])}
        P == {i \in V : is_pending_candidate(rows[i])}
        st(i) == lower(strip(rows[i].status))
    IN  [total |-> Cardinality(V),
         pending |-> Cardinality(P),
         complete |-> Cardinality({i \in V \ P : st(i) = "complete"}),
         running |-> Cardinality({i \in V \ P : st(i) = "running"}),
         failed |-> Cardinality({i \in V \ P : st(i) \notin {"complete", "running"}
                                                /\ startswith(st(i), "failed")})]


\* ------------------------------------------------- ids and generations

Digits == "0123456789"

\* The value of a decimal digit character, -1 for any other character.
digit_value(c) ==
    LET D == {d \in 0..9 : SubSeq(Digits, d + 1, d + 1) = c}
    IN  IF D = {} THEN -1 ELSE CHOOSE d \in D : TRUE

RECURSIVE int_digits(_, _)
\* The number a string of digits denotes after the digits read so far (acc),
\* -1 when a character is no digit.
int_digits(s, acc) ==
    IF Len(s) = 0 THEN acc
    ELSE IF digit_value(SubSeq(s, 1, 1)) < 0 THEN -1
         ELSE int_digits(SubSeq(s, 2, Len(s)), 10 * acc + digit_value(SubSeq(s, 1, 1)))

\* int(s): surrounding whitespace is dropped; -1 stands for ValueError.
to_int(s) == IF strip(s) = "" THEN -1 ELSE int_digits(strip(s), 0)

RECURSIVE zero_pad(_, _)
\* f"{n:0<width>d}"
zero_pad(n, width) ==
    IF n < 10 /\ width <= 1 THEN SubSeq(Digits, n + 1, n + 1)
    ELSE zero_pad(n \div 10, width - 1) \o SubSeq(Digits, (n % 10) + 1, (n % 10) + 1)

\* The position of the first '-' of s, 0 when it has none.
dash_pos(s) ==
    LET D == {k \in 1..Len(s) : SubSeq(s, k, k) = "-"}
    IN  IF D = {} THEN 0 ELSE CHOOSE k \in D : \A l \in D : k <= l

\* s.split('-')[0]
before_dash(s) == IF dash_pos(s) = 0 THEN s ELSE SubSeq(s, 1, dash_pos(s) - 1)

\* s.split('-')[1], for an s that has a '-'
after_dash(s) == before_dash(SubSeq(s, dash_pos(s) + 1, Len(s)))

gen_prefix(generation) == "gen" \o zero_pad(generation, 2)

\* The generation an id names: int(gen_part[3:]) when the id has a '-' and
\* its first part starts with gen; -1 otherwise.
id_generation(candidate_id) ==
    IF dash_pos(candidate_id) > 0 /\ startswith(before_dash(candidate_id), "gen")
    THEN to_int(SubSeq(before_dash(candidate_id), 4, Len(before_dash(candidate_id))))
    ELSE -1

SetMax(S) == IF S = {} THEN 0 ELSE CHOOSE x \in S : \A y \in S : y <= x

get_highest_generation(rows) ==
    SetMax({id_generation(clean_id(rows[i].id)) :
              i \in {k \in DataIdx(rows) : is_valid_candidate_row(rows[k])}} \cup {0})

\* The number after the '-' of an id of the generation, -1 for other ids.
id_number(candidate_id, generation) ==
    IF startswith(candidate_id, gen_prefix(generation) \o "-")
    THEN to_int(after_dash(candidate_id))
    ELSE -1

\* get_next_ids without the scan of the claimed ids.
get_next_ids_from_csv(rows, generation, count, claimed_ids) ==
    LET in_csv == {id_number(clean_id(rows[i].id), generation) :
                     i \in {k \in DataIdx(rows) : is_valid_candidate_row(rows[k])}}
        max_id == SetMax(in_csv \cup {0})
    IN  [i \in 1..count |-> gen_prefix(generation) \o "-" \o zero_pad(max_id + i, 3)]

get_next_ids(rows, generation, count, claimed_ids) ==
    LET in_csv == {id_number(clean_id(rows[i].id), generation) :
                     i \in {k \in DataIdx(rows) : is_valid_candidate_row(rows[k])}}
        in_claimed == {id_number(claimed_ids[k], generation) : k \in 1..Len(claimed_ids)}
        max_id == SetMax(in_csv \cup in_claimed \cup {0})
    IN  [i \in 1..count |-> gen_prefix(generation) \o "-" \o zero_pad(max_id + i, 3)]

\* ------------------------------------------------------------------ state

VARIABLES
    csv,        \* the ledger file: its rows
    pre,        \* SpecLedger: the ledger before the last operation
    op,         \* SpecLedger: the last operation applied
    ret,        \* SpecLedger: what the last operation returned
    lockLink,   \* the inode the lock path .evolution.csv.lock names, 0 if none
    fd,         \* per process: the inode its open lock file is, 0 if none
    flockOwner, \* per inode: the process holding flock(LOCK_EX) on it, 0 if none
    lpc,        \* SpecLock: per process, its position in the locked claim
    lrows,      \* SpecLock: per process, the rows it read with _read_csv
    got         \* SpecLock: per process, the ids its claims returned

\* Spec: the dispatcher (EvolutionRunner.run)
VARIABLES
    dpc,        \* the dispatcher's position in run()
    iteration,  \* run()'s iteration counter, kept modulo 5
    workers,    \* WorkerPool.workers: the slots spawned and not yet reaped
    reset_live, \* history: the workers alive at the last reset_stuck_candidates
    bad_args,   \* the run's configuration makes the worker's argparse fail
    row_limit   \* the most data rows the model lets ideation grow the ledger to

\* Spec: the worker processes (Worker.run, process_candidate, _handle_signal)
VARIABLES
    wstate,     \* per slot: "none", "live" or "exited" (not yet reaped)
    wexit,      \* per slot: the exit code of an exited worker
    wpc,        \* per slot: the worker's position
    current_candidate_id,   \* per slot: Worker.current_candidate_id, "" for None
    candidate,  \* per slot: run()'s candidate_id, then its Candidate
    processed,  \* per slot: run()'s processed counter
    validation_attempt,     \* per slot: the validator loop's counter
    score,      \* per slot: the score _run_evaluator returned
    processing, \* history, per slot: the id claimed whose outcome is not recorded
    signalled,  \* history, per slot: position and claimed id when the signal came
    orphaned,   \* history: ids whose worker exited before recording an outcome
    lock_holder,\* the worker inside a with EvolutionCSV(...) block, 0 if none
    art,        \* per id: the state of the file evolution_<id>.py
    faults      \* the signals, kills and lock timeouts so far

\* SpecSandbox: the sandbox harness (run_sandboxed and its monitor thread)
VARIABLES
    harness     \* the child, the main thread, the monitor thread and the result

\* SpecBackoff: a worker's model call (call_ai_with_backoff) and what the
\* worker makes of its outcome
VARIABLES
    backoff     \* the loop's locals, the invocations so far, the worker's exit

\* SpecPool: the dispatcher's WorkerPool with process ids
VARIABLES
    workerpool  \* WorkerPool.workers, the processes' states, run()'s stats

\* SpecTree: the memory monitors' reading of the process tree
VARIABLES
    pstree      \* the processes ps lists, the root child, the value measured

\* Spec: the ideation pass (Ideator.run)
VARIABLES
    ipc,        \* the ideation subprocess's position, "idle" when none runs
    context,    \* the IdeationContext get_context built
    strategy_idx,   \* the index into Ideator.strategies of the next strategy
    claimed_ids,    \* run()'s claimed_ids
    all_ideas   \* run()'s all_ideas

histVars == <<pre, op, ret, harness, backoff, workerpool, pstree>>
lockVars == <<lockLink, fd, flockOwner, lpc, lrows, got>>
confVars == <<bad_args, row_limit>>
dispVars == <<dpc, iteration, workers, reset_live, confVars>>
workerVars == <<wstate, wexit, wpc, current_candidate_id, candidate, processed,
                validation_attempt, score, processing, signalled, orphaned>>
ideaVars == <<ipc, context, strategy_idx, claimed_ids, all_ideas>>
sysVars == <<dispVars, workerVars, lock_holder, art, faults, ideaVars>>
vars == <<csv, histVars, lockVars, sysVars>>

Procs == 1..NumProcs
\* One more inode than processes: each process holds at most one open.
Inodes == 1..(NumProcs + 1)

\* No harness runs.
HarnessIdle == [main |-> "idle"]

\* No call of call_ai_with_backoff is in progress.
BackoffIdle == [pc |-> "idle"]

\* No WorkerPool is in use.
PoolIdle == [pc |-> "idle"]

\* No memory monitor is running.
TreeIdle == [pc |-> "idle"]

HistIdle ==
    pre = <<>> /\ op = "init" /\ ret = None /\ harness = HarnessIdle /\ backoff = BackoffIdle
    /\ workerpool = PoolIdle
    /\ pstree = TreeIdle

LockIdle ==
    /\ lockLink = 0
    /\ fd = [p \in Procs |-> 0]
    /\ flockOwner = [n \in Inodes |-> 0]
    /\ lpc = [p \in Procs |-> "idle"]
    /\ lrows = [p \in Procs |-> <<>>]
    /\ got = [p \in Procs |-> <<>>]

Slots == 1..max_workers

\* The ids files of the output directory are named after.
ArtIds == {"baseline-000", "gen01-001", "gen01-002", "gen02-001", "gen02-002"}

NoSignal == [pc |-> "", id |-> "", signum |-> 0]

\* The values of the variables of Spec before a dispatcher is started.
RunIdle ==
    /\ dpc = "cleanup"
    /\ iteration = 0
    /\ workers = {}
    /\ reset_live = {}
    /\ wstate = [w \in Slots |-> "none"]
    /\ wexit = [w \in Slots |-> 0]
    /\ wpc = [w \in Slots |-> "main"]
    /\ current_candidate_id = [w \in Slots |-> ""]
    /\ candidate = [w \in Slots |-> None]
    /\ processed = [w \in Slots |-> 0]
    /\ validation_attempt = [w \in Slots |-> 0]
    /\ score = [w \in Slots |-> ""]
    /\ processing = [w \in Slots |-> ""]
    /\ signalled = [w \in Slots |-> NoSignal]
    /\ lock_holder = 0
    /\ art = [i \in ArtIds |-> "absent"]
    /\ faults = 0
    /\ ipc = "idle"
    /\ context = None
    /\ strategy_idx = 1
    /\ claimed_ids = <<>>
    /\ all_ideas = <<>>

SysIdle == RunIdle /\ bad_args = FALSE /\ row_limit = 0 /\ orphaned = {}

\* ------------------------------------------------------------- SpecLedger
\* The contents an initial ledger is drawn from. Ids come clean, padded and
\* quoted; statuses cover every status of the data model, the empty field,
\* padded and capitalised variants and the corrupted forms the code names.

LedgerIds == {"baseline-000", "gen01-001", " gen01-001"}

LedgerStatuses ==
    {"", "pending", "running", " running ", "Running", "complete", "failed",
     "failed-validation", "failed-retry1", "skipped", "pending gen08-013",
     "complete\nfoo"}

\* A complete row carries a score; all others carry none.
LedgerRows ==
    {Row(i, "", "d", IF lower(strip(s)) = "complete" THEN "1.5" ELSE "", s) :
        i \in LedgerIds, s \in LedgerStatuses}

RECURSIVE SeqsUpTo(_, _)
SeqsUpTo(S, n) ==
    IF n = 0 THEN {<<>>}
    ELSE LET shorter == SeqsUpTo(S, n - 1)
         IN  shorter \cup {Append(q, x) : q \in {r \in shorter : Len(r) = n - 1}, x \in S}

Ledgers == {<<HeaderRow>> \o q : q \in SeqsUpTo(LedgerRows, MaxRows)}

InitLedger ==
    /\ csv \in Ledgers
    /\ pre = csv
    /\ op = "init"
    /\ harness = HarnessIdle
    /\ backoff = BackoffIdle
    /\ workerpool = PoolIdle
    /\ pstree = TreeIdle
    /\ ret = None
    /\ LockIdle
    /\ SysIdle

\* with EvolutionCSV(...) as csv: csv.get_next_pending_candidate()
ClaimNextPending ==
    LET r == get_next_pending_candidate(csv)
    IN  /\ csv' = r.rows
        /\ pre' = csv
        /\ op' = "claim"
        /\ UNCHANGED <<harness, backoff, workerpool, pstree>>
        /\ ret' = r.result
        /\ UNCHANGED <<lockVars, sysVars>>

\* with EvolutionCSV(...) as csv: csv.reset_stuck_candidates()
ResetStuck ==
    /\ csv' = reset_stuck_candidates(csv)
    /\ pre' = csv
    /\ op' = "reset_stuck"
    /\ UNCHANGED <<harness, backoff, workerpool, pstree>>
    /\ ret' = None
    /\ UNCHANGED <<lockVars, sysVars>>

NextLedger == ClaimNextPending \/ ResetStuck

SpecLedger == InitLedger /\ [][NextLedger]_vars

\* ------------------------------------------------------ SpecLedger: claims

\* The status as get_csv_stats reads it when it counts a row as running.
IsRunningRow(row) == lower(strip(row.status)) = "running"

\* C3: after claim_next_pending returns (id, prev), exactly one row has
\* changed: a row whose cleaned id is `id` and whose status was the pending
\* status prev now has status running; every other row and every other
\* field of the claimed row is as before.
C3_ClaimFrame ==
    (op = "claim" /\ ret # None) =>
        \E i \in DataIdx(pre) :
            /\ clean_id(pre[i].id) = ret.id
            /\ strip(pre[i].status) = ret.status
            /\ is_pending_candidate(pre[i])
            /\ pre[i].status # "running"
            /\ csv = [pre EXCEPT ![i].status = "running"]

\* C3's case: a claim returned a candidate from a ledger in which another
\* row carries the same id.
C3_Witness ==
    /\ op = "claim" /\ ret # None
    /\ Cardinality({i \in DataIdx(pre) : clean_id(pre[i].id) = ret.id}) >= 2

\* C6: after reset_stuck (applied with no worker active) no row has status
\* running, and every row that had status running has status pending.
C6_ResetStuck ==
    op = "reset_stuck" =>
        /\ Len(csv) = Len(pre)
        /\ \A i \in DataIdx(csv) :
            /\ ~IsRunningRow(csv[i])
            /\ IsRunningRow(pre[i]) => csv[i].status = "pending"

\* C6's case: reset_stuck was applied to a ledger with a running row.
C6_Witness ==
    /\ op = "reset_stuck"
    /\ \E i \in DataIdx(pre) : IsRunningRow(pre[i])

\* --------------------------------------------------------------- SpecLock
\* Processes that each run, up to MaxClaims times,
\*     with EvolutionCSV(csv_path) as csv: csv.get_next_pending_candidate()
\* one system call or file operation at a time.

\* Two pending candidates with unique ids, or one.
LockLedgers ==
    {<<HeaderRow, Row("gen01-001", "", "d", "", "pending")>>,
     <<HeaderRow, Row("gen01-001", "", "d", "", "pending"),
                  Row("gen01-002", "", "d", "", "pending")>>}

InitLock ==
    /\ csv \in LockLedgers
    /\ HistIdle
    /\ LockIdle
    /\ SysIdle

\* An inode number no path and no open file refers to.
FreeInode == CHOOSE n \in Inodes : lockLink # n /\ \A q \in Procs : fd[q] # n

\* Worker.run: the next pass of the loop enters the lock context.
LockEnter(p) ==
    /\ lpc[p] = "idle"
    /\ Len(got[p]) < MaxClaims
    /\ lpc' = [lpc EXCEPT ![p] = "open"]
    /\ UNCHANGED <<csv, histVars, sysVars, lockLink, fd, flockOwner, lrows, got>>

\* _acquire_lock: open(lock_path, 'w') opens the file the path names and
\* creates it when the path names none.
LockOpen(p) ==
    /\ lpc[p] = "open"
    /\ IF lockLink = 0
       THEN /\ lockLink' = FreeInode
            /\ fd' = [fd EXCEPT ![p] = FreeInode]
       ELSE /\ fd' = [fd EXCEPT ![p] = lockLink]
            /\ UNCHANGED lockLink
    /\ lpc' = [lpc EXCEPT ![p] = "flock"]
    /\ UNCHANGED <<csv, histVars, sysVars, flockOwner, lrows, got>>

\* _acquire_lock: fcntl.flock(LOCK_EX | LOCK_NB) on the open file; on
\* EWOULDBLOCK the file is closed and the loop sleeps.
LockFlock(p) ==
    /\ lpc[p] = "flock"
    /\ IF flockOwner[fd[p]] = 0
       THEN /\ flockOwner' = [flockOwner EXCEPT ![fd[p]] = p]
            /\ lpc' = [lpc EXCEPT ![p] = "read"]
            /\ UNCHANGED fd
       ELSE /\ fd' = [fd EXCEPT ![p] = 0]
            /\ lpc' = [lpc EXCEPT ![p] = "retry"]
            /\ UNCHANGED flockOwner
    /\ UNCHANGED <<csv, histVars, sysVars, lockLink, lrows, got>>

\* _acquire_lock: the while loop goes round again before the deadline.
LockRetry(p) ==
    /\ lpc[p] = "retry"
    /\ lpc' = [lpc EXCEPT ![p] = "open"]
    /\ UNCHANGED <<csv, histVars, sysVars, lockLink, fd, flockOwner, lrows, got>>

\* _acquire_lock: the deadline has passed, RuntimeError ends the process.
LockTimeout(p) ==
    /\ lpc[p] = "retry"
    /\ lpc' = [lpc EXCEPT ![p] = "error"]
    /\ UNCHANGED <<csv, histVars, sysVars, lockLink, fd, flockOwner, lrows, got>>

\* get_next_pending_candidate: rows = self._read_csv()
LockRead(p) ==
    /\ lpc[p] = "read"
    /\ lrows' = [lrows EXCEPT ![p] = csv]
    /\ lpc' = [lpc EXCEPT ![p] = "write"]
    /\ UNCHANGED <<csv, histVars, sysVars, lockLink, fd, flockOwner, got>>

\* get_next_pending_candidate: the scan of the rows read, and when a row is
\* pending self._write_csv(rows) and the return of (id, status).
LockWrite(p) ==
    /\ lpc[p] = "write"
    /\ LET r == get_next_pending_candidate(lrows[p])
       IN  IF r.result = None
           THEN /\ lpc' = [lpc EXCEPT ![p] = "drained"]
                /\ UNCHANGED <<csv, got>>
           ELSE /\ csv' = r.rows
                /\ got' = [got EXCEPT ![p] = Append(@, r.result.id)]
                /\ lpc' = [lpc EXCEPT ![p] = "unlock"]
    /\ UNCHANGED <<histVars, sysVars, lockLink, fd, flockOwner, lrows>>

\* _release_lock: fcntl.flock(LOCK_UN)
LockUnlock(p) ==
    /\ lpc[p] \in {"unlock", "drained"}
    /\ flockOwner' = [flockOwner EXCEPT ![fd[p]] = 0]
    /\ lpc' = [lpc EXCEPT ![p] = IF lpc[p] = "drained" THEN "close_last" ELSE "close"]
    /\ UNCHANGED <<csv, histVars, sysVars, lockLink, fd, lrows, got>>

\* _release_lock: self.lock_file.close()
LockClose(p) ==
    /\ lpc[p] \in {"close", "close_last"}
    /\ fd' = [fd EXCEPT ![p] = 0]
    /\ lpc' = [lpc EXCEPT ![p] = IF lpc[p] = "close_last" THEN "unlink_last" ELSE "unlink"]
    /\ UNCHANGED <<csv, histVars, sysVars, lockLink, flockOwner, lrows, got>>

\* _release_lock: os.unlink(lock_path) removes whatever file the path names
\* now; when it names none, the OSError is swallowed.
LockUnlink(p) ==
    /\ lpc[p] \in {"unlink", "unlink_last"}
    /\ lockLink' = 0
    /\ lpc' = [lpc EXCEPT ![p] = IF lpc[p] = "unlink_last" THEN "done" ELSE "idle"]
    /\ UNCHANGED <<csv, histVars, sysVars, fd, flockOwner, lrows, got>>

NextLock ==
    \E p \in Procs :
        \/ LockEnter(p)
        \/ LockOpen(p)
        \/ LockFlock(p)
        \/ LockRetry(p)
        \/ LockTimeout(p)
        \/ LockRead(p)
        \/ LockWrite(p)
        \/ LockUnlock(p)
        \/ LockClose(p)
        \/ LockUnlink(p)

SpecLock == InitLock /\ [][NextLock]_vars

\* The ids returned by all claims of all processes, one entry per call.
Returned == {<<p, k>> : p \in Procs, k \in 1..MaxClaims} 

ReturnedId(c) == got[c[1]][c[2]]

InLockContext(p) == lpc[p] \in {"read", "write", "unlock", "drained"}


\* ------------------------------------------------------------ Spec: worker
\* A with EvolutionCSV(...) block of a worker is two steps: the block is
\* entered and its ledger operations run when no worker is inside one, and
\* the block is left in a later step, so a signal can arrive inside it. The
\* lock excludes here; SpecLock has the steps of the lock file itself.

IsSep(c) == IsWs(c) \/ c \in {",", ";"}

RECURSIVE split_parents(_, _)
\* re.split(r'[,;\s]+', parent_id), the empty pieces dropped: tok is the
\* piece being read.
split_parents(s, tok) ==
    IF Len(s) = 0 THEN (IF tok = "" THEN <<>> ELSE <<tok>>)
    ELSE IF IsSep(SubSeq(s, 1, 1))
         THEN (IF tok = "" THEN <<>> ELSE <<tok>>) \o split_parents(SubSeq(s, 2, Len(s)), "")
         ELSE split_parents(SubSeq(s, 2, Len(s)), tok \o SubSeq(s, 1, 1))

\* A directory in which no file is ever found.
no_file_exists(id) == FALSE

\* Path(output_dir / evolution_<id>.py).exists()
file_exists(id) == id \in ArtIds /\ art[id] # "absent"

\* A resolution that falls back on algorithm_path when no parent has a file.
resolve_parent_or_algorithm(parent_id) ==
    LET toks == split_parents(parent_id, "")
        E == {k \in 1..Len(toks) : file_exists(toks[k])}
    IN  IF E = {} THEN "algorithm" ELSE toks[CHOOSE k \in E : \A l \in E : k <= l]

\* _resolve_parent_id: the source file, "algorithm" for algorithm_path, the
\* id of the first parent whose file exists, "" for None.
resolve_parent_id(parent_id) ==
    IF parent_id = "" \/ parent_id = "baseline-000" THEN "algorithm"
    ELSE LET toks == split_parents(parent_id, "")
             E == {k \in 1..Len(toks) : file_exists(toks[k])}
         IN  IF E = {} THEN "" ELSE toks[CHOOSE k \in E : \A l \in E : k <= l]

\* No candidate is taken for the baseline.
never_baseline(candidate_id, parent_id) == FALSE

is_baseline(candidate_id, parent_id) ==
    parent_id = "" /\ candidate_id \in {"baseline", "baseline-000", "000", "0", "gen00-000"}

\* py_compile accepts the file.
check_syntax(id) == id \in ArtIds /\ art[id] \in {"copy", "good"}

\* The worker process ends with the exit code; the id it had claimed and
\* not settled is left to whoever resets it.
Exits(w, code) ==
    /\ wstate' = [wstate EXCEPT ![w] = "exited"]
    /\ wexit' = [wexit EXCEPT ![w] = code]
    /\ wpc' = [wpc EXCEPT ![w] = "exited"]
    /\ current_candidate_id' = [current_candidate_id EXCEPT ![w] = ""]
    /\ candidate' = [candidate EXCEPT ![w] = None]
    /\ processed' = [processed EXCEPT ![w] = 0]
    /\ validation_attempt' = [validation_attempt EXCEPT ![w] = 0]
    /\ score' = [score EXCEPT ![w] = ""]
    /\ orphaned' = IF processing[w] = "" THEN orphaned ELSE orphaned \cup {processing[w]}
    /\ processing' = [processing EXCEPT ![w] = ""]
    /\ lock_holder' = IF lock_holder = w THEN 0 ELSE lock_holder

At(w, pc) == wstate[w] = "live" /\ wpc[w] = pc

Goto(w, pc) == wpc' = [wpc EXCEPT ![w] = pc]

OtherFrame == UNCHANGED <<histVars, lockVars, dispVars, ideaVars>>

\* main(): the arguments are parsed; argparse ends the process with status 2
\* when it rejects them.
WorkerMain(w) ==
    /\ At(w, "main")
    /\ IF bad_args
       THEN /\ Exits(w, 2)
            /\ UNCHANGED <<csv, signalled, art, faults>>
       ELSE /\ Goto(w, "loop")
            /\ UNCHANGED <<csv, wstate, wexit, current_candidate_id, candidate, processed,
                           validation_attempt, score, processing, signalled, orphaned,
                           lock_holder, art, faults>>
    /\ OtherFrame

\* run(): with EvolutionCSV(...) as csv: result = csv.get_next_pending_candidate()
WorkerClaim(w) ==
    /\ At(w, "loop")
    /\ processed[w] < max_candidates
    /\ lock_holder = 0
    /\ LET r == get_next_pending_candidate(csv)
       IN  /\ csv' = r.rows
           /\ lock_holder' = w
           /\ IF r.result = None
              THEN /\ Goto(w, "no_pending")
                   /\ UNCHANGED <<candidate, processing, orphaned>>
              ELSE /\ Goto(w, "claimed")
                   /\ candidate' = [candidate EXCEPT ![w] = [id |-> r.result.id]]
                   /\ processing' = [processing EXCEPT ![w] = r.result.id]
                   /\ orphaned' = orphaned \ {r.result.id}
    /\ UNCHANGED <<wstate, wexit, current_candidate_id, processed, validation_attempt,
                   score, signalled, art, faults>>
    /\ OtherFrame

\* run(): the loop ends after max_candidates candidates.
WorkerDone(w) ==
    /\ At(w, "loop")
    /\ processed[w] >= max_candidates
    /\ Exits(w, 0)
    /\ UNCHANGED <<csv, signalled, art, faults>>
    /\ OtherFrame

\* run(): with EvolutionCSV(...) as csv: info = csv.get_candidate_info(candidate_id)
WorkerInfo(w) ==
    /\ At(w, "info")
    /\ lock_holder = 0
    /\ lock_holder' = w
    /\ candidate' = [candidate EXCEPT ![w] =
                        LET info == get_candidate_info(csv, candidate[w].id)
                        IN  IF info = None THEN None
                            ELSE [id |-> info.id, based_on_id |-> info.basedOnId]]
    /\ Goto(w, "informed")
    /\ UNCHANGED <<csv, wstate, wexit, current_candidate_id, processed, validation_attempt,
                   score, processing, signalled, orphaned, art, faults>>
    /\ OtherFrame

\* process_candidate, from its first line to the AI call: the current
\* candidate is set, the parent resolved and the source copied to the target.
WorkerProcess(w) ==
    /\ At(w, "process")
    /\ current_candidate_id' = [current_candidate_id EXCEPT ![w] = candidate[w].id]
    /\ LET id == candidate[w].id
           baseline == is_baseline(id, candidate[w].based_on_id)
           source_file == resolve_parent_id(candidate[w].based_on_id)
       IN  IF source_file = "" /\ ~baseline
           THEN \* return 78; run(): processed += 1
                /\ Goto(w, "mark_78")
                /\ processed' = [processed EXCEPT ![w] = @ + 1]
                /\ UNCHANGED art
           ELSE IF file_exists(id) \/ baseline
           THEN /\ Goto(w, "evaluate")
                /\ UNCHANGED <<art, processed>>
           ELSE /\ Goto(w, "ai")
                /\ art' = [art EXCEPT ![id] = "copy"]
                /\ UNCHANGED processed
    /\ UNCHANGED <<csv, wstate, wexit, candidate, validation_attempt, score, processing,
                   signalled, orphaned, lock_holder, faults>>
    /\ OtherFrame

\* A failure path that leaves the target file in place.
keep_file(files, id) == files

\* target_file.unlink(missing_ok=True)
unlink(files, id) == [files EXCEPT ![id] = "absent"]

\* _call_ai_with_backoff returns: success when no AIError ended the rounds
\* and the file's hash changed. On failure the target is unlinked and
\* process_candidate returns 77.
WorkerAIReturn(w) ==
    /\ At(w, "ai")
    /\ \E changed \in BOOLEAN, error \in BOOLEAN, content \in {"good", "bad"} :
          IF changed /\ ~error
          THEN /\ art' = [art EXCEPT ![candidate[w].id] = content]
               /\ Goto(w, "record_model")
               /\ UNCHANGED processed
          ELSE /\ art' = unlink(art, candidate[w].id)
               /\ Goto(w, "mark_77")
               /\ processed' = [processed EXCEPT ![w] = @ + 1]
    /\ UNCHANGED <<csv, wstate, wexit, current_candidate_id, candidate, validation_attempt,
                   score, processing, signalled, orphaned, lock_holder, faults>>
    /\ OtherFrame

\* with EvolutionCSV(...) as csv: csv.update_candidate_field(id, 'run-LLM', model)
\* The run-LLM column is not among the columns of the model's rows.
WorkerRecordModel(w) ==
    /\ At(w, "record_model")
    /\ lock_holder = 0
    /\ lock_holder' = w
    /\ Goto(w, "model_recorded")
    /\ UNCHANGED <<csv, wstate, wexit, current_candidate_id, candidate, processed,
                   validation_attempt, score, processing, signalled, orphaned, art, faults>>
    /\ OtherFrame

\* _check_syntax; on a syntax error the target is unlinked.
WorkerSyntax(w) ==
    /\ At(w, "syntax")
    /\ IF check_syntax(candidate[w].id)
       THEN /\ Goto(w, "validate")
            /\ validation_attempt' = [validation_attempt EXCEPT ![w] = 0]
            /\ UNCHANGED art
       ELSE /\ Goto(w, "requeue")
            /\ art' = unlink(art, candidate[w].id)
            /\ UNCHANGED validation_attempt
    /\ UNCHANGED <<csv, wstate, wexit, current_candidate_id, candidate, processed,
                   score, processing, signalled, orphaned, lock_holder, faults>>
    /\ OtherFrame

\* A with block whose one operation is update_candidate_status(id, status).
WriteStatus(w, status, pc) ==
    /\ lock_holder = 0
    /\ lock_holder' = w
    /\ csv' = update_candidate_status(csv, candidate[w].id, status)
    /\ processing' = [processing EXCEPT ![w] = ""]
    /\ Goto(w, pc)
    /\ UNCHANGED <<wstate, wexit, current_candidate_id, candidate, processed,
                   validation_attempt, score, signalled, orphaned, art, faults>>
    /\ OtherFrame

\* Syntax error: update_candidate_status(id, 'pending'), then return 0.
WorkerRequeue(w) == At(w, "requeue") /\ WriteStatus(w, "pending", "requeued")

\* A validator loop that gives up one attempt late.
retries_exhausted_late(attempt) == attempt > max_validation_retries

\* if validation_attempt >= self.config.max_validation_retries: break
retries_exhausted(attempt) == attempt >= max_validation_retries

\* _run_validator: no validator.py, or the validator's verdict.
WorkerValidate(w) ==
    /\ At(w, "validate")
    /\ \E valid \in BOOLEAN :
          Goto(w, IF valid THEN "evaluate"
                  ELSE IF retries_exhausted(validation_attempt[w])
                       THEN "fail_validation" ELSE "fix")
    /\ UNCHANGED <<csv, wstate, wexit, current_candidate_id, candidate, processed,
                   validation_attempt, score, processing, signalled, orphaned,
                   lock_holder, art, faults>>
    /\ OtherFrame

\* The fix call of the validator loop returns.
WorkerFixReturn(w) ==
    /\ At(w, "fix")
    /\ \E changed \in BOOLEAN, error \in BOOLEAN, content \in {"good", "bad"} :
          /\ art' = IF changed THEN [art EXCEPT ![candidate[w].id] = content] ELSE art
          /\ Goto(w, IF changed /\ ~error THEN "record_fix" ELSE "fail_validation")
    /\ UNCHANGED <<csv, wstate, wexit, current_candidate_id, candidate, processed,
                   validation_attempt, score, processing, signalled, orphaned,
                   lock_holder, faults>>
    /\ OtherFrame

\* with EvolutionCSV(...) as csv: csv.get_candidate_info(id).get('run-LLM', '')
\* and update_candidate_field. A row that is gone makes .get raise: the block
\* is left and main() exits with 1.
WorkerRecordFix(w) ==
    /\ At(w, "record_fix")
    /\ lock_holder = 0
    /\ IF get_candidate_info(csv, candidate[w].id) = None
       THEN /\ Exits(w, 1)
            /\ UNCHANGED <<csv, signalled, art, faults>>
       ELSE /\ lock_holder' = w
            /\ Goto(w, "fix_recorded")
            /\ UNCHANGED <<csv, wstate, wexit, current_candidate_id, candidate, processed,
                           validation_attempt, score, processing, signalled, orphaned,
                           art, faults>>
    /\ OtherFrame

\* update_candidate_status(id, 'failed-validation') and the validation_error
\* field, then return 1.
WorkerFailValidation(w) ==
    At(w, "fail_validation") /\ WriteStatus(w, "failed-validation", "validation_failed")

ScoreSet == {"1.5"}

\* _run_evaluator: no score, or a score.
WorkerEvaluate(w) ==
    /\ At(w, "evaluate")
    /\ \E sc \in ScoreSet \cup {""} :
          /\ score' = [score EXCEPT ![w] = sc]
          /\ Goto(w, IF sc = "" THEN "fail_eval" ELSE "complete")
    /\ UNCHANGED <<csv, wstate, wexit, current_candidate_id, candidate, processed,
                   validation_attempt, processing, signalled, orphaned,
                   lock_holder, art, faults>>
    /\ OtherFrame

\* update_candidate_status(id, 'failed'), then return 1.
WorkerFailEval(w) == At(w, "fail_eval") /\ WriteStatus(w, "failed", "eval_failed")

\* The first operation of the last with block: update_candidate_status(id, 'complete')
WorkerCompleteStatus(w) == At(w, "complete") /\ WriteStatus(w, "complete", "status_complete")

\* The second: update_candidate_performance(id, str(score))
WorkerCompletePerformance(w) ==
    /\ At(w, "status_complete")
    /\ lock_holder = w
    /\ csv' = update_candidate_performance(csv, candidate[w].id, score[w])
    /\ Goto(w, "completed")
    /\ UNCHANGED <<wstate, wexit, current_candidate_id, candidate, processed,
                   validation_attempt, score, processing, signalled, orphaned,
                   lock_holder, art, faults>>
    /\ OtherFrame

\* run(): exit code 77 is recorded as failed-ai-retry, 78 as failed-parent-missing.
WorkerMark(w) ==
    \/ At(w, "mark_77") /\ WriteStatus(w, "failed-ai-retry", "marked")
    \/ At(w, "mark_78") /\ WriteStatus(w, "failed-parent-missing", "marked")

\* A with block is left: its __exit__ releases the lock, and the code up to
\* the next block, file operation or external call runs.
LeaveTo(w, pc) ==
    /\ lock_holder = w
    /\ lock_holder' = 0
    /\ Goto(w, pc)
    /\ UNCHANGED <<csv, wstate, wexit, score, processing, signalled, orphaned, art, faults>>
    /\ OtherFrame

\* run(): after the claim; no result ends the loop and the process, with 0.
LeaveClaim(w) ==
    \/ /\ At(w, "claimed")
       /\ LeaveTo(w, "info")
       /\ UNCHANGED <<current_candidate_id, candidate, processed, validation_attempt>>
    \/ /\ At(w, "no_pending")
       /\ lock_holder = w
       /\ Exits(w, 0)
       /\ UNCHANGED <<csv, signalled, art, faults>>
       /\ OtherFrame

\* run(): after get_candidate_info; no info continues the loop.
LeaveInfo(w) ==
    /\ At(w, "informed")
    /\ LeaveTo(w, IF candidate[w] = None THEN "loop" ELSE "process")
    /\ UNCHANGED <<current_candidate_id, candidate, processed, validation_attempt>>

\* process_candidate: after the run-LLM field was written, for the edit or
\* for a fix (the validator loop's next attempt follows).
LeaveRecord(w) ==
    \/ /\ At(w, "model_recorded")
       /\ LeaveTo(w, "syntax")
       /\ UNCHANGED <<current_candidate_id, candidate, processed, validation_attempt>>
    \/ /\ At(w, "fix_recorded")
       /\ LeaveTo(w, "validate")
       /\ validation_attempt' = [validation_attempt EXCEPT ![w] = @ + 1]
       /\ UNCHANGED <<current_candidate_id, candidate, processed>>

\* process_candidate returns after the outcome was written (only the
\* complete path clears current_candidate_id) and run() counts the candidate;
\* or run() has written the status for exit code 77 or 78.
LeaveOutcome(w) ==
    \/ /\ wstate[w] = "live" /\ wpc[w] \in {"requeued", "validation_failed", "eval_failed"}
       /\ LeaveTo(w, "loop")
       /\ processed' = [processed EXCEPT ![w] = @ + 1]
       /\ UNCHANGED <<current_candidate_id, candidate, validation_attempt>>
    \/ /\ At(w, "completed")
       /\ LeaveTo(w, "loop")
       /\ current_candidate_id' = [current_candidate_id EXCEPT ![w] = ""]
       /\ processed' = [processed EXCEPT ![w] = @ + 1]
       /\ UNCHANGED <<candidate, validation_attempt>>
    \/ /\ At(w, "marked")
       /\ LeaveTo(w, "loop")
       /\ UNCHANGED <<current_candidate_id, candidate, processed, validation_attempt>>

\* The positions at which a worker waits to enter a with block.
WaitsForLock(w) ==
    /\ wstate[w] = "live"
    /\ \/ wpc[w] \in {"info", "record_model", "requeue", "record_fix", "fail_validation",
                      "fail_eval", "complete", "mark_77", "mark_78"}
       \/ wpc[w] = "loop" /\ processed[w] < max_candidates

\* _acquire_lock: another process kept the lock for lock_timeout seconds;
\* the RuntimeError ends main() with exit code 1.
AcquireTimeout(w) ==
    /\ WaitsForLock(w)
    /\ lock_holder \notin {0, w}
    /\ faults < MaxFaults
    /\ faults' = faults + 1
    /\ Exits(w, 1)
    /\ UNCHANGED <<csv, signalled, art>>
    /\ OtherFrame

\* SIGTERM (15) or SIGINT (2) is delivered: _handle_signal runs in place of
\* the code the worker was executing.
Signal(w) ==
    /\ wstate[w] = "live"
    /\ wpc[w] # "handler"
    /\ faults < MaxFaults
    /\ faults' = faults + 1
    /\ \E signum \in {2, 15} :
          signalled' = [signalled EXCEPT ![w] =
                           [pc |-> wpc[w], id |-> processing[w], signum |-> signum]]
    /\ Goto(w, "handler")
    /\ UNCHANGED <<csv, wstate, wexit, current_candidate_id, candidate, processed,
                   validation_attempt, score, processing, orphaned, lock_holder, art>>
    /\ OtherFrame

handler_terminal == {"complete", "failed", "failed-ai-retry", "failed-parent-missing"}

\* What _handle_signal's with block does to the ledger.
handle_signal_rows(rows, candidate_id) ==
    LET info == get_candidate_info(rows, candidate_id)
        status == IF info = None THEN "" ELSE lower(info.status)
    IN  IF status \notin handler_terminal
        THEN update_candidate_status(rows, candidate_id, "pending")
        ELSE rows

\* _handle_signal: with no current candidate it only exits. Its with block
\* opens the lock file anew, so while the interrupted code is inside a with
\* block of its own the handler's flock fails until lock_timeout, the
\* RuntimeError is caught and logged, and the row is left as it is.
HandleSignal(w) ==
    /\ At(w, "handler")
    /\ IF current_candidate_id[w] = "" \/ lock_holder = w
       THEN UNCHANGED csv
       ELSE /\ lock_holder = 0
            /\ csv' = handle_signal_rows(csv, current_candidate_id[w])
    /\ Exits(w, 128 + signalled[w].signum)
    /\ UNCHANGED <<signalled, art, faults>>
    /\ OtherFrame

\* _handle_signal: another process kept the lock for lock_timeout seconds.
HandleSignalTimeout(w) ==
    /\ At(w, "handler")
    /\ current_candidate_id[w] # ""
    /\ lock_holder \notin {0, w}
    /\ Exits(w, 128 + signalled[w].signum)
    /\ UNCHANGED <<csv, signalled, art, faults>>
    /\ OtherFrame

\* SIGKILL, or a crash of the interpreter: the process is gone, the kernel
\* closes its lock file.
Kill(w) ==
    /\ wstate[w] = "live"
    /\ faults < MaxFaults
    /\ faults' = faults + 1
    /\ Exits(w, -9)
    /\ UNCHANGED <<csv, signalled, art>>
    /\ OtherFrame

WorkerStep(w) ==
    \/ WorkerMain(w) \/ WorkerClaim(w) \/ WorkerDone(w) \/ LeaveClaim(w)
    \/ WorkerInfo(w) \/ LeaveInfo(w) \/ WorkerProcess(w)
    \/ WorkerAIReturn(w) \/ WorkerRecordModel(w) \/ LeaveRecord(w) \/ WorkerSyntax(w)
    \/ WorkerRequeue(w) \/ WorkerValidate(w) \/ WorkerFixReturn(w) \/ WorkerRecordFix(w)
    \/ WorkerFailValidation(w) \/ WorkerEvaluate(w) \/ WorkerFailEval(w)
    \/ WorkerCompleteStatus(w) \/ WorkerCompletePerformance(w) \/ WorkerMark(w)
    \/ LeaveOutcome(w) \/ AcquireTimeout(w) \/ Signal(w) \/ HandleSignal(w)
    \/ HandleSignalTimeout(w) \/ Kill(w)

\* ---------------------------------------------------------- Spec: ideation

\* sub in s
contains(s, sub) ==
    \E k \in 1..(Len(s) - Len(sub) + 1) : SubSeq(s, k, k + Len(sub) - 1) = sub

\* float(s) in tenths, for the scores of the model (one decimal).
float_tenths(s) ==
    LET t == strip(s)
        D == {k \in 1..Len(t) : SubSeq(t, k, k) = "."}
        d == CHOOSE k \in D : TRUE
    IN  IF D = {} THEN 10 * to_int(t)
        ELSE 10 * to_int(SubSeq(t, 1, d - 1)) + to_int(SubSeq(t, d + 1, Len(t)))

\* get_top_performers(...)[0]['id']: the complete row with a numeric
\* performance that the stable descending sort puts first; "" when none.
top_performer(rows) ==
    LET C == {i \in DataIdx(rows) :
                /\ is_valid_candidate_row(rows[i])
                /\ lower(strip(rows[i].status)) = "complete"
                /\ is_float(rows[i].perf)}
        best == CHOOSE i \in C : \A j \in C :
                    \/ float_tenths(rows[i].perf) > float_tenths(rows[j].perf)
                    \/ float_tenths(rows[i].perf) = float_tenths(rows[j].perf) /\ i <= j
    IN  IF C = {} THEN "" ELSE clean_id(rows[best].id)

get_all_descriptions(rows) ==
    LET D == {i \in DataIdx(rows) : is_valid_candidate_row(rows[i]) /\ strip(rows[i].desc) # ""}
    IN  [k \in 1..Len(RowsAt(rows, D, 1)) |-> strip(RowsAt(rows, D, 1)[k].desc)]

Placeholder == "[PLACEHOLDER: Replace with algorithmic idea]"

\* Ideator.strategies with their counts: novel_exploration (whose default
\* parent is none) and hill_climbing, one idea each.
StrategyCounts == <<1, 1>>

default_parent(idx) == IF idx = 1 THEN "" ELSE context.top

\* The stub rows generate() appends to the temporary copy of the ledger.
stub_rows(ids, parent) == [k \in 1..Len(ids) |-> Row(ids[k], parent, Placeholder, "", "pending")]

RECURSIVE parse_results(_, _)
\* _parse_results: every row of the edited file whose id is an expected id
\* and whose description is filled in is an idea.
parse_results(rows, expected_ids) ==
    IF Len(rows) = 0 THEN <<>>
    ELSE LET row == rows[1]
             id == clean_id(row.id)
             description == clean_id(row.desc)
         IN  (IF /\ \E k \in 1..Len(expected_ids) : expected_ids[k] = id
                 /\ ~contains(description, "PLACEHOLDER")
                 /\ description # ""
              THEN <<[id |-> id, based_on_id |-> strip(row.based), description |-> description]>>
              ELSE <<>>)
             \o parse_results(Tail(rows), expected_ids)

\* The rows the model may leave in place of the stub rows: any id of the
\* batch, the default parent or another, the placeholder or a description.
LLMRows(ids, parent) ==
    {Row(ids[k], b, d, "", "pending") :
        k \in 1..Len(ids), b \in {parent, "gen01-001"}, d \in {Placeholder, "idea"}}

RECURSIVE Pick(_, _)
\* The subsequence of q at the positions in S.
Pick(q, S) ==
    IF Len(q) = 0 THEN <<>>
    ELSE Pick(SubSeq(q, 1, Len(q) - 1), S) \o (IF Len(q) \in S THEN <<q[Len(q)]>> ELSE <<>>)

DataCount(rows) == Cardinality(DataIdx(rows))

IdeaFrame == UNCHANGED <<histVars, lockVars, workerVars, lock_holder, art, faults>>

\* Ideator.get_context, inside a with block.
IdeateContext ==
    /\ ipc = "context"
    /\ lock_holder = 0
    /\ context' = [generation |-> get_highest_generation(csv) + 1,
                   top |-> top_performer(csv),
                   existing_descriptions |-> get_all_descriptions(csv)]
    /\ ipc' = "generate"
    /\ strategy_idx' = 1
    /\ claimed_ids' = <<>>
    /\ all_ideas' = <<>>
    /\ UNCHANGED <<csv, dispVars>>
    /\ IdeaFrame

\* A generate() that keeps no record of the ids it took.
claim_nothing(claimed, ids) == claimed

\* claimed_ids.extend(ids), before the temporary file is written and the
\* model is called
claim_ids(claimed, ids) == claimed \o ids

\* One pass of run()'s loop: strategy.generate claims the next ids, copies
\* the ledger to the temporary file with the stub rows, calls the model,
\* which edits the file at will, and parses the file; the novelty check
\* (an embedding comparison, skipped when there is nothing to compare with)
\* drops any of the ideas.
IdeateGenerate ==
    /\ ipc = "generate"
    /\ LET count == StrategyCounts[strategy_idx]
           ids == get_next_ids(csv, context.generation, count, claimed_ids)
           temp_csv == csv \o stub_rows(ids, default_parent(strategy_idx))
       IN  /\ claimed_ids' = claim_ids(claimed_ids, ids)
           /\ \E error \in BOOLEAN,
                 edit \in SeqsUpTo(LLMRows(ids, default_parent(strategy_idx)), count + 1) :
                 LET edited == SubSeq(temp_csv, 1, Len(csv)) \o edit
                     ideas == IF error THEN <<>> ELSE parse_results(edited, ids)
                 IN  \E novel \in SUBSET (1..Len(ideas)) :
                        /\ (Len(context.existing_descriptions) + Len(all_ideas) = 0
                               => novel = 1..Len(ideas))
                        /\ DataCount(csv) + Len(all_ideas) + Cardinality(novel) <= row_limit
                        /\ all_ideas' = all_ideas \o Pick(ideas, novel)
    /\ IF strategy_idx = Len(StrategyCounts)
       THEN ipc' = "append" /\ UNCHANGED strategy_idx
       ELSE strategy_idx' = strategy_idx + 1 /\ UNCHANGED ipc
    /\ UNCHANGED <<csv, context, dispVars>>
    /\ IdeaFrame

idea_rows(ideas) ==
    [k \in 1..Len(ideas) |-> Row(ideas[k].id, ideas[k].based_on_id, ideas[k].description, "", "pending")]

\* run(): the ideas are appended inside a with block and the subprocess
\* exits; run_ideation returns to the dispatcher's loop, which continues
\* (after 30 seconds when no idea was generated).
IdeateAppend ==
    /\ ipc = "append"
    /\ lock_holder = 0
    /\ csv' = append_candidates(csv, idea_rows(all_ideas))
    /\ ipc' = "idle"
    /\ context' = None
    /\ strategy_idx' = 1
    /\ claimed_ids' = <<>>
    /\ all_ideas' = <<>>
    /\ dpc' = IF dpc = "ideate" THEN "loop" ELSE dpc
    /\ UNCHANGED <<iteration, workers, reset_live, confVars>>
    /\ IdeaFrame

\* -------------------------------------------------------- Spec: dispatcher
\* The dispatcher's with blocks hold no external call and no signal handler
\* of the model runs in the dispatcher: each is one step, taken when no
\* worker is inside a block.

Live == {w \in Slots : wstate[w] = "live"}

\* cleanup_csv: remove_duplicate_candidates, reset_stuck_candidates and
\* cleanup_corrupted_status_fields in one with block.
cleanup_csv(rows) ==
    cleanup_corrupted_status_fields(reset_stuck_candidates(remove_duplicate_candidates(rows)))

\* ensure_baseline
ensure_baseline(rows) ==
    IF get_candidate_info(rows, "baseline-000") = None
    THEN append_candidates(rows, <<Row("baseline-000", "", "Original algorithm.py performance",
                                       "", "pending")>>)
    ELSE rows

DispFrame == UNCHANGED <<histVars, lockVars, lock_holder, art, faults>>

\* should_ideate, with auto_ideate on
should_ideate(st) == st.complete >= min_completed_for_ideation

\* run(): self.cleanup_csv() at startup
StartupCleanup ==
    /\ dpc = "cleanup"
    /\ lock_holder = 0
    /\ csv' = cleanup_csv(csv)
    /\ reset_live' = Live
    /\ dpc' = "baseline"
    /\ UNCHANGED <<iteration, workers, confVars, workerVars, ideaVars>>
    /\ DispFrame

\* run(): self.ensure_baseline()
EnsureBaseline ==
    /\ dpc = "baseline"
    /\ lock_holder = 0
    /\ csv' = ensure_baseline(csv)
    /\ dpc' = "loop"
    /\ UNCHANGED <<iteration, workers, reset_live, confVars, workerVars, ideaVars>>
    /\ DispFrame

\* The slots the spawn loop fills: as many as st.pending and the free slots
\* of the pool allow, lowest first.
spawn_slots(pool, st) ==
    LET free == Slots \ pool
    IN  {w \in free : Cardinality({v \in free : v < w}) < st.pending}

\* run(): one pass of the loop, from iteration += 1 to the poll sleep.
\* pool.cleanup_finished() reaps the exited workers. An exit code 2 or 3
\* leads to the five-minute pause. Otherwise: the periodic
\* reset_stuck_candidates() when iteration % 5 == 0 and the pool is empty;
\* get_stats(); with nothing pending and an empty pool a
\* reset_stuck_candidates(), get_stats() again, and ideation or the end of
\* the run when still nothing is pending; else the spawn loop, which starts
\* a worker process in main() for each pending row the stats showed while
\* the pool has room.
PollIteration ==
    /\ dpc = "loop"
    /\ LET finished == {w \in workers : wstate[w] = "exited"}
           exit_codes == {wexit[w] : w \in finished}
           pool == workers \ finished
           periodic == (iteration + 1) % 5 = 0 /\ pool = {}
           rows1 == IF periodic THEN reset_stuck_candidates(csv) ELSE csv
           idle == get_csv_stats(rows1).pending = 0 /\ pool = {}
           rows2 == IF idle THEN reset_stuck_candidates(rows1) ELSE rows1
           st == get_csv_stats(rows2)
           new == IF idle /\ st.pending = 0 THEN {} ELSE spawn_slots(pool, st)
       IN  /\ iteration' = (iteration + 1) % 5
           /\ wexit' = [w \in Slots |-> IF w \in finished THEN 0 ELSE wexit[w]]
           /\ wpc' = [w \in Slots |-> IF w \in finished THEN "main" ELSE wpc[w]]
           /\ signalled' = [w \in Slots |-> IF w \in finished THEN NoSignal ELSE signalled[w]]
           /\ IF 2 \in exit_codes \/ 3 \in exit_codes
              THEN /\ dpc' = "api_wait"
                   /\ workers' = pool
                   /\ wstate' = [w \in Slots |-> IF w \in finished THEN "none" ELSE wstate[w]]
                   /\ UNCHANGED <<csv, reset_live, ipc>>
              ELSE /\ lock_holder = 0
                   /\ csv' = rows2
                   /\ reset_live' = IF periodic \/ idle THEN Live \ finished ELSE reset_live
                   /\ workers' = pool \cup new
                   /\ wstate' = [w \in Slots |-> IF w \in finished \ new THEN "none"
                                                 ELSE IF w \in new THEN "live" ELSE wstate[w]]
                   /\ dpc' = IF idle /\ st.pending = 0
                             THEN (IF should_ideate(st) THEN "ideate" ELSE "done")
                             ELSE "loop"
                   /\ ipc' = IF idle /\ st.pending = 0 /\ should_ideate(st) THEN "context" ELSE ipc
    /\ UNCHANGED <<confVars, current_candidate_id, candidate, processed, validation_attempt,
                   score, processing, orphaned, context, strategy_idx, claimed_ids, all_ideas>>
    /\ DispFrame

\* run(): an exit code 2 or 3 was reaped: time.sleep(300), self.cleanup_csv()
\* and continue.
ApiLimitPause ==
    /\ dpc = "api_wait"
    /\ lock_holder = 0
    /\ csv' = cleanup_csv(csv)
    /\ reset_live' = Live
    /\ dpc' = "loop"
    /\ UNCHANGED <<iteration, workers, confVars, workerVars, ideaVars>>
    /\ DispFrame

\* ------------------------------------------------------------------- Spec
\* The ledger a run starts from: no file yet, or the ledger of an earlier
\* run, with a row its worker left running or with an id twice.
SysLedgers ==
    {<<>>,
     <<HeaderRow, Row("gen01-001", "", "idea", "", "running")>>,
     <<HeaderRow, Row("gen01-001", "", "idea", "", "pending"),
                  Row("gen01-001", "", "idea", "", "pending")>>}

Init ==
    /\ csv \in SysLedgers
    /\ bad_args \in BOOLEAN
    /\ row_limit = MaxLedgerRows
    /\ orphaned = {clean_id(csv[i].id) : i \in {k \in DataIdx(csv) : IsRunningRow(csv[k])}}
    /\ HistIdle
    /\ LockIdle
    /\ RunIdle

Next ==
    \/ StartupCleanup
    \/ EnsureBaseline
    \/ PollIteration
    \/ ApiLimitPause
    \/ IdeateContext
    \/ IdeateGenerate
    \/ IdeateAppend
    \/ \E w \in Slots : WorkerStep(w)

Spec == Init /\ [][Next]_vars

\* Every id of the ledger is an id the model keeps a file state for.
IdsCovered == \A i \in DataIdx(csv) : clean_id(csv[i].id) \in ArtIds

\* ------------------------------------------------------------ SpecIdeate
\* The ledger under the operations that write it, each as the one step its
\* with block is under the lock: the startup preamble with its baseline
\* insertion, then claims, status updates and ideation passes in any order.

IdeateLedgers ==
    {<<>>,
     <<HeaderRow, Row("gen01-001", "", "idea", "", "pending"),
                  Row("gen01-001", "", "idea", "", "running")>>}

InitIdeate ==
    /\ csv \in IdeateLedgers
    /\ HistIdle
    /\ LockIdle
    /\ RunIdle
    /\ bad_args = FALSE
    /\ row_limit = MaxIdeaRows
    /\ orphaned = {}

LedgerFrame == UNCHANGED <<histVars, lockVars, sysVars>>

\* A worker's claim: get_next_pending_candidate()
LedgerClaim ==
    /\ dpc = "loop"
    /\ get_next_pending_candidate(csv).result # None
    /\ csv' = get_next_pending_candidate(csv).rows
    /\ LedgerFrame

\* A worker's status update of a row it claimed: update_candidate_status,
\* and update_candidate_performance with complete.
LedgerUpdate ==
    /\ dpc = "loop"
    /\ \E i \in DataIdx(csv), status \in {"failed", "complete"} :
          /\ csv[i].status = "running"
          /\ csv' = IF status = "complete"
                    THEN update_candidate_performance(
                             update_candidate_status(csv, clean_id(csv[i].id), status),
                             clean_id(csv[i].id), "1.5")
                    ELSE update_candidate_status(csv, clean_id(csv[i].id), status)
    /\ LedgerFrame

\* run_ideation: the ideation subprocess is started.
StartIdeation ==
    /\ dpc = "loop"
    /\ ipc = "idle"
    /\ ipc' = "context"
    /\ UNCHANGED <<csv, histVars, lockVars, dispVars, workerVars, lock_holder, art, faults,
                   context, strategy_idx, claimed_ids, all_ideas>>

NextIdeate ==
    \/ StartupCleanup
    \/ EnsureBaseline
    \/ LedgerClaim
    \/ LedgerUpdate
    \/ StartIdeation
    \/ IdeateContext
    \/ IdeateGenerate
    \/ IdeateAppend

SpecIdeate == InitIdeate /\ [][NextIdeate]_vars

\* C5: after the startup preamble, whatever claims, status updates, baseline
\* insertions and ideation appends follow, no two data rows of the ledger
\* have the same candidate id.
C5_UniqueIds ==
    dpc \notin {"cleanup", "baseline"} =>
        \A i \in DataIdx(csv) : \A j \in DataIdx(csv) :
            i # j => clean_id(csv[i].id) # clean_id(csv[j].id)

\* ------------------------------------------------------------ Spec: claims

\* The live workers that have claimed the id and not recorded its outcome.
ProcessedBy(id) == {w \in Live : processing[w] = id}

\* C2: every row with status running is being processed by exactly one live
\* worker or is an orphan whose worker has died, and no id is being processed
\* by two live workers at the same time.
C2_OneWorkerPerRow ==
    /\ \A w \in Live : \A v \in Live \ {w} :
          processing[w] # "" => processing[w] # processing[v]
    /\ \A i \in DataIdx(csv) :
          IsRunningRow(csv[i]) =>
             \/ Cardinality(ProcessedBy(clean_id(csv[i].id))) = 1
             \/ ProcessedBy(clean_id(csv[i].id)) = {} /\ clean_id(csv[i].id) \in orphaned

\* C4: in every reachable state, a row whose status is complete has a
\* numeric performance.
C4_CompleteHasPerformance ==
    \A i \in DataIdx(csv) :
        lower(strip(csv[i].status)) = "complete" => is_float(csv[i].perf)

\* C7: whenever the dispatcher has called reset_stuck_candidates, no worker
\* process was live at the call.
C7_ResetOnlyWithoutWorkers == reset_live = {}

\* The step in which worker w's signal handler ends the process.
HandlerExit(w) ==
    /\ At(w, "handler")
    /\ wstate'[w] = "exited"
    /\ wexit'[w] = 128 + signalled[w].signum

\* The status of the first row with the id, as get_candidate_info reads it.
status_of(rows, id) ==
    IF get_candidate_info(rows, id) = None THEN "" ELSE get_candidate_info(rows, id).status

\* C8: a worker signalled after its claim and before it recorded the row's
\* outcome leaves the row pending when its handler exits with 128 + signum.
C8_SignalRevertsClaim ==
    [][\A w \in Slots :
          (HandlerExit(w) /\ signalled[w].id # "")
             => status_of(csv', signalled[w].id) = "pending"]_vars

\* The terminal statuses of the data model.
TerminalStatuses ==
    {"complete", "failed", "failed-ai-retry", "failed-parent-missing",
     "failed-validation", "skipped"}

\* C9: the signal handler never changes the status of a row that is in a
\* terminal state.
C9_HandlerKeepsTerminal ==
    [][\A w \in Slots :
          HandlerExit(w) =>
             \A i \in DataIdx(csv) :
                 lower(strip(csv[i].status)) \in TerminalStatuses
                    => csv'[i].status = csv[i].status]_vars

\* C10: when the edit fails, or the worker is signalled while the edit is in
\* flight, the candidate's target file is not on disk afterwards.
C10_NoArtifactKept ==
    [][\A w \in Slots :
          /\ (At(w, "ai") /\ wpc'[w] = "mark_77") => art'[candidate[w].id] = "absent"
          /\ (HandlerExit(w) /\ signalled[w].pc = "ai") => art'[candidate[w].id] = "absent"]_vars

\* The step in which worker w's process ends through main(): run() returned
\* (0, 2 or 3), argparse ended it (2) or main() caught an exception (1).
ExitsThroughMain(w) ==
    /\ wstate[w] = "live"
    /\ wstate'[w] = "exited"
    /\ wexit'[w] \in 0..3

\* C11: when a worker process ends by a normal loop exit, with exit code 2 or
\* 3, or on an error path (a ledger-lock timeout), the row it had claimed and
\* not yet recorded an outcome for is not left running.
C11_OutcomeRecordedBeforeExit ==
    [][\A w \in Slots :
          (ExitsThroughMain(w) /\ processing[w] # "")
             => status_of(csv', processing[w]) # "running"]_vars

\* ------------------------------------------------------------- SpecProcess
\* One worker inside run(), in front of a ledger with one data row and an
\* output directory left by earlier runs: the row's id, parents and status
\* and the files on disk are drawn from bounded sets.

ProcessIds == {"baseline-000", "gen01-002"}

\* basedOnId fields: none, one parent, a list of two parents, the baseline,
\* a list that names the baseline.
ProcessParents == {"", "gen01-001", "gen02-001 gen01-001", "baseline-000", "baseline-000,gen01-001"}

\* The files evolution_<id>.py an earlier run can have left: none, an
\* unedited copy of the parent, an edited file that compiles, one that does not.
ProcessFiles == {"absent", "copy", "good", "bad"}

ProcessLedgers ==
    {<<HeaderRow, Row(i, b, "idea", IF s = "complete" THEN "1.5" ELSE "", s)>> :
        i \in ProcessIds, b \in ProcessParents, s \in {"pending", "complete"}}

InitProcess ==
    /\ csv \in ProcessLedgers
    /\ art \in {f \in [ArtIds -> ProcessFiles] :
                  f["baseline-000"] = "absent" /\ f["gen02-002"] = "absent"}
    /\ bad_args = FALSE
    /\ row_limit = 0
    /\ orphaned = {}
    /\ HistIdle
    /\ LockIdle
    /\ dpc = "loop"
    /\ iteration = 0
    /\ workers = {1}
    /\ reset_live = {}
    /\ wstate = [w \in Slots |-> IF w = 1 THEN "live" ELSE "none"]
    /\ wexit = [w \in Slots |-> 0]
    /\ wpc = [w \in Slots |-> IF w = 1 THEN "loop" ELSE "main"]
    /\ current_candidate_id = [w \in Slots |-> ""]
    /\ candidate = [w \in Slots |-> None]
    /\ processed = [w \in Slots |-> 0]
    /\ validation_attempt = [w \in Slots |-> 0]
    /\ score = [w \in Slots |-> ""]
    /\ processing = [w \in Slots |-> ""]
    /\ signalled = [w \in Slots |-> NoSignal]
    /\ lock_holder = 0
    /\ faults = 0
    /\ ipc = "idle"
    /\ context = None
    /\ strategy_idx = 1
    /\ claimed_ids = <<>>
    /\ all_ideas = <<>>

NextProcess ==
    \/ WorkerClaim(1) \/ WorkerDone(1) \/ LeaveClaim(1)
    \/ WorkerInfo(1) \/ LeaveInfo(1) \/ WorkerProcess(1)
    \/ WorkerAIReturn(1) \/ WorkerRecordModel(1) \/ LeaveRecord(1) \/ WorkerSyntax(1)
    \/ WorkerRequeue(1) \/ WorkerValidate(1) \/ WorkerFixReturn(1) \/ WorkerRecordFix(1)
    \/ WorkerFailValidation(1) \/ WorkerEvaluate(1) \/ WorkerFailEval(1)
    \/ WorkerCompleteStatus(1) \/ WorkerCompletePerformance(1) \/ WorkerMark(1)
    \/ LeaveOutcome(1)

SpecProcess == InitProcess /\ [][NextProcess]_vars

\* The worker is at the first line of process_candidate and the target file
\* of its candidate is on disk.
StartsWithTarget(w) ==
    /\ At(w, "process")
    /\ art[candidate[w].id] # "absent"

\* The worker's candidate is the baseline, or one of its parents has a file.
ParentResolves(w) ==
    \/ is_baseline(candidate[w].id, candidate[w].based_on_id)
    \/ resolve_parent_id(candidate[w].based_on_id) # ""

C13_CompleteHasValidArtifact ==
    \A i \in DataIdx(csv) :
        (/\ lower(strip(csv[i].status)) = "complete"
         /\ ~is_baseline(clean_id(csv[i].id), strip(csv[i].based)))
            => check_syntax(clean_id(csv[i].id))

\* ------------------------------------------------------------- SpecPending
\* The pending predicate's three users, get_next_pending_candidate,
\* get_pending_candidates and get_csv_stats, applied to ledgers whose rows
\* carry every status of the data model, capitalised, padded and corrupted
\* variants, statuses that only resemble a pending one, and an empty id.

PendingIds == {"gen01-001", ""}

PendingStatuses ==
    {"", "\n", "pending", "Pending", " pending\n", "pending gen08-013", "pending\tx",
     "pendingx", "failed-retry1", "failed-retry", "Failed-Retry2", "running",
     " running ", "complete", "failed", "failed-ai-retry", "failed-parent-missing",
     "failed-validation", "skipped"}

PendingRows ==
    {Row(i, "", "d", IF s = "complete" THEN "1.5" ELSE "", s) :
        i \in PendingIds, s \in PendingStatuses}

\* With the header row and without it.
PendingLedgers ==
    {h \o q : h \in {<<>>, <<HeaderRow>>}, q \in SeqsUpTo(PendingRows, MaxRows)}

InitPending ==
    /\ csv \in PendingLedgers
    /\ pre = csv
    /\ op = "init"
    /\ harness = HarnessIdle
    /\ backoff = BackoffIdle
    /\ workerpool = PoolIdle
    /\ pstree = TreeIdle
    /\ ret = None
    /\ LockIdle
    /\ SysIdle

\* with EvolutionCSV(...) as csv: csv.get_pending_candidates()
ListPending ==
    /\ pre' = csv
    /\ op' = "list_pending"
    /\ UNCHANGED <<harness, backoff, workerpool, pstree>>
    /\ ret' = get_pending_candidates(csv)
    /\ UNCHANGED <<csv, lockVars, sysVars>>

\* with EvolutionCSV(...) as csv: csv.get_csv_stats()
Stats ==
    /\ pre' = csv
    /\ op' = "stats"
    /\ UNCHANGED <<harness, backoff, workerpool, pstree>>
    /\ ret' = get_csv_stats(csv)
    /\ UNCHANGED <<csv, lockVars, sysVars>>

NextPending == ClaimNextPending \/ ListPending \/ Stats

SpecPending == InitPending /\ [][NextPending]_vars

\* The statuses the pending predicate names, of a normalized status.
NamedPending(n) ==
    \/ n = ""
    \/ n = "pending"
    \/ startswith(n, "pending ")
    \/ startswith(n, "failed-retry")

\* What a claim and a listing did, for a predicate P on rows: the claim took
\* the last row P holds of, or nothing when P holds of none; the listing
\* returned the rows P holds of.
TreatsAsClaimable(P(_)) ==
    /\ op = "claim" =>
          IF ret = None
          THEN \A i \in DataIdx(pre) : ~P(pre[i])
          ELSE \E i \in DataIdx(pre) :
                  /\ P(pre[i])
                  /\ \A j \in DataIdx(pre) : j > i => ~P(pre[j])
                  /\ csv = [pre EXCEPT ![i].status = "running"]
    /\ op = "list_pending" =>
          /\ Len(ret) = Cardinality({i \in DataIdx(pre) : P(pre[i])})
          /\ \A i \in DataIdx(pre) :
                P(pre[i]) => \E k \in 1..Len(ret) :
                                /\ ret[k].id = clean_id(pre[i].id)
                                /\ ret[k].status = strip(pre[i].status)

\* The claim's predicate: the status with CR/LF/TAB collapsed and surrounding
\* whitespace trimmed is one of the named ones.
PendingAsStated(row) == NamedPending(join_split(strip(row.status)))

\* The same for a row with a non-empty id, the status lower-cased as well.
PendingAmended(row) ==
    /\ strip(row.id) # ""
    /\ NamedPending(lower(join_split(strip(row.status))))

\* C14 as stated: claim_next_pending and list_pending treat a row as claimable
\* iff its status, CR/LF/TAB collapsed and trimmed, is empty, is pending,
\* begins with "pending " or begins with failed-retry.
C14_ClaimableIffPending == TreatsAsClaimable(PendingAsStated)

\* C14, amended: a row is treated as claimable iff its id is not empty and
\* its status, CR/LF/TAB collapsed, trimmed and lower-cased, is empty, is
\* pending, begins with "pending " or begins with failed-retry.
C14_ClaimableIffPendingLower == TreatsAsClaimable(PendingAmended)

\* A claim took a row with a corrupted pending status and passed over a
\* later running row.
C14_Witness ==
    /\ op = "claim" /\ ret # None
    /\ ret.status = "pending gen08-013"
    /\ \E i \in DataIdx(pre) : pre[i].status = "running" /\ csv[i] = pre[i]

IsFailedRetryN(s) ==
    /\ startswith(s, "failed-retry")
    /\ to_int(SubSeq(s, Len("failed-retry") + 1, Len(s))) >= 1

\* The statuses of the data model other than running.
IsRecognizedStatus(s) ==
    \/ s \in {"", "pending", "complete", "failed", "failed-ai-retry",
              "failed-parent-missing", "failed-validation", "skipped"}
    \/ IsFailedRetryN(s)

\* C16: reset_stuck leaves unchanged every row whose status is empty or a
\* status of the data model other than running.
C16_ResetStuckFrame ==
    op = "reset_stuck" =>
        /\ Len(csv) = Len(pre)
        /\ \A i \in DataIdx(pre) :
              IsRecognizedStatus(strip(pre[i].status)) => csv[i] = pre[i]

\* ------------------------------------------------------------- SpecCleanup
\* The operations of the startup cleanup, one at a time and as cleanup_csv
\* runs them, on ledgers of up to MaxCleanupRows rows whose ids repeat (clean,
\* padded, quoted) and whose statuses include corrupted ones.

MaxCleanupRows == 3

CleanupIds == {"gen01-001", " gen01-001", "\"gen01-001\"", "gen01-002"}

CleanupStatuses == {"pending", "running", "complete", "complete\nfoo", "failed\tboom"}

CleanupRows ==
    {Row(i, "", "d", IF s = "complete" THEN "1.5" ELSE "", s) :
        i \in CleanupIds, s \in CleanupStatuses}

CleanupLedgers == {<<HeaderRow>> \o q : q \in SeqsUpTo(CleanupRows, MaxCleanupRows)}

InitCleanup ==
    /\ csv \in CleanupLedgers
    /\ pre = csv
    /\ op = "init"
    /\ harness = HarnessIdle
    /\ backoff = BackoffIdle
    /\ workerpool = PoolIdle
    /\ pstree = TreeIdle
    /\ ret = None
    /\ LockIdle
    /\ SysIdle

\* with EvolutionCSV(...) as csv: csv.remove_duplicate_candidates()
RemoveDuplicates ==
    /\ csv' = remove_duplicate_candidates(csv)
    /\ pre' = csv
    /\ op' = "remove_duplicates"
    /\ UNCHANGED <<harness, backoff, workerpool, pstree>>
    /\ ret' = [count |-> Len(csv) - Len(remove_duplicate_candidates(csv))]
    /\ UNCHANGED <<lockVars, sysVars>>

\* with EvolutionCSV(...) as csv: csv.cleanup_corrupted_status_fields()
CleanupCorrupted ==
    /\ csv' = cleanup_corrupted_status_fields(csv)
    /\ pre' = csv
    /\ op' = "cleanup_corrupted"
    /\ UNCHANGED <<harness, backoff, workerpool, pstree>>
    /\ ret' = None
    /\ UNCHANGED <<lockVars, sysVars>>

\* EvolutionRunner.cleanup_csv()
CleanupCsv ==
    /\ csv' = cleanup_csv(csv)
    /\ pre' = csv
    /\ op' = "cleanup_csv"
    /\ UNCHANGED <<harness, backoff, workerpool, pstree>>
    /\ ret' = None
    /\ UNCHANGED <<lockVars, sysVars>>

NextCleanup == RemoveDuplicates \/ ResetStuck \/ CleanupCorrupted \/ CleanupCsv

SpecCleanup == InitCleanup /\ [][NextCleanup]_vars

\* The index of the first data row of rows that carries the id, 0 if none.
FirstWithId(rows, id) ==
    LET S == {i \in DataIdx(rows) : clean_id(rows[i].id) = id}
    IN  IF S = {} THEN 0 ELSE CHOOSE i \in S : \A j \in S : i <= j

\* rows is what is left of before when, for every id, the first row with
\* it is kept as it is and every later row with it is removed.
KeepsFirstOfEachId(before, rows) ==
    /\ start_idx(rows) = start_idx(before)
    /\ \A i \in 1..start_idx(rows) : rows[i] = before[i]
    /\ \A i \in DataIdx(before) :
          Cardinality({k \in DataIdx(rows) : clean_id(rows[k].id) = clean_id(before[i].id)}) = 1
    /\ \A k \in DataIdx(rows) :
          /\ FirstWithId(before, clean_id(rows[k].id)) # 0
          /\ rows[k] = before[FirstWithId(before, clean_id(rows[k].id))]
    /\ \A k \in DataIdx(rows) : \A l \in DataIdx(rows) :
          k < l => FirstWithId(before, clean_id(rows[k].id))
                      < FirstWithId(before, clean_id(rows[l].id))

\* C17: remove_duplicates keeps, for every id, the first row with it
\* unchanged, removes the later ones and keeps the order of the rest; a
\* second call in a row removes nothing and leaves the ledger as it is.
C17_RemoveDuplicates ==
    [][op' = "remove_duplicates" =>
          /\ KeepsFirstOfEachId(pre', csv')
          /\ op = "remove_duplicates" => (csv' = csv /\ ret'.count = 0)]_vars

\* remove_duplicates removed a row between two rows it kept.
C17_Witness ==
    /\ op = "remove_duplicates"
    /\ Len(pre) = 1 + 3 /\ Len(csv) = 1 + 2
    /\ csv[2] = pre[2] /\ csv[3] = pre[4]
    /\ pre[3].status # pre[2].status

\* The statuses a corrupted field can begin with.
RepairableStatuses == {"pending", "complete", "failed", "skipped"}

\* The status has the form "<valid> <garbage>": with CR/LF/TAB collapsed and
\* surrounding whitespace trimmed, it begins with the valid status and a space.
IsCorruptedFrom(status, valid) ==
    startswith(lower(join_split(strip(status))), valid \o " ")

\* C18: after the startup preamble, every row whose status was a valid status
\* followed by garbage carries the valid status.
C18_StartupRepairsStatus ==
    op = "cleanup_csv" =>
        \A k \in DataIdx(csv) :
            LET o == FirstWithId(pre, clean_id(csv[k].id))
            IN  \A v \in RepairableStatuses :
                    (o # 0 /\ IsCorruptedFrom(pre[o].status, v)) => csv[k].status = v


\* ------------------------------------------------------------- SpecNextIds
\* get_next_ids on ledgers of up to MaxIdRows rows, with and without a header,
\* whose ids are padded, quoted, unpadded, non-numeric, of another generation
\* or at the end of the three-digit range, for generations 1 and 2, counts up
\* to MaxCount and claimed lists of up to MaxClaimed ids.

MaxIdRows == 2

MaxCount == 3

MaxClaimed == 2

NextIdsLedgerIds ==
    {"gen01-001", " gen01-002", "\"gen01-002\"", "gen01-3", "gen01-abc", "gen01-003-x",
     "gen01-999", "gen02-001", "baseline-000", ""}

NextIdsClaimed == {"gen01-001", "gen01-004", "gen01-x", "gen02-002", " gen01-005"}

NextIdsGenerations == {1, 2}

NextIdsRows == {Row(i, "", "d", "", "pending") : i \in NextIdsLedgerIds}

NextIdsLedgers ==
    {h \o q : h \in {<<>>, <<HeaderRow>>}, q \in SeqsUpTo(NextIdsRows, MaxIdRows)}

InitNextIds ==
    /\ csv \in NextIdsLedgers
    /\ pre = csv
    /\ op = "init"
    /\ harness = HarnessIdle
    /\ backoff = BackoffIdle
    /\ workerpool = PoolIdle
    /\ pstree = TreeIdle
    /\ ret = None
    /\ LockIdle
    /\ SysIdle

\* with EvolutionCSV(...) as csv: csv.get_next_ids(generation, count, claimed_ids)
\* The call reads the file and its arguments and writes nothing, so one call
\* per behaviour covers every call: a second one would start from the same
\* file.
GetNextIds ==
    \E generation \in NextIdsGenerations, count \in 0..MaxCount,
       claimed \in SeqsUpTo(NextIdsClaimed, MaxClaimed) :
        /\ op = "init"
        /\ pre' = csv
        /\ op' = "get_next_ids"
        /\ UNCHANGED <<harness, backoff, workerpool, pstree>>
        /\ ret' = [ids |-> get_next_ids(csv, generation, count, claimed),
                   generation |-> generation, count |-> count, claimed |-> claimed]
        /\ UNCHANGED <<csv, lockVars, sysVars>>

NextNextIds == GetNextIds

SpecNextIds == InitNextIds /\ [][NextNextIds]_vars

\* The ids of the rows of a ledger file, as written (raw) and as every id
\* comparison of the program cleans them.
IdsOfLedger(rows) ==
    {rows[i].id : i \in DataIdx(rows)} \cup {clean_id(rows[i].id) : i \in DataIdx(rows)}

\* C19: get_next_ids(g, k, claimed) returns exactly k pairwise distinct ids
\* of generation g, none of them the id of a ledger row (raw or cleaned) and
\* none of them in claimed.
C19_NextIdsFresh ==
    op = "get_next_ids" =>
        /\ Len(ret.ids) = ret.count
        /\ \A i, j \in 1..Len(ret.ids) : ret.ids[i] = ret.ids[j] => i = j
        /\ \A i \in 1..Len(ret.ids) :
              /\ startswith(ret.ids[i], gen_prefix(ret.generation) \o "-")
              /\ id_generation(ret.ids[i]) = ret.generation
              /\ ret.ids[i] \notin IdsOfLedger(csv)
              /\ \A k \in 1..Len(ret.claimed) : ret.claimed[k] # ret.ids[i]

\* Two ids are asked of a ledger that holds an id of the generation while the
\* claimed list holds a higher one of the same generation.
C19_Witness ==
    /\ op = "get_next_ids"
    /\ ret.count = 2
    /\ ret.generation = 1
    /\ \E i \in DataIdx(csv) : csv[i].id = "gen01-001"
    /\ \E k \in 1..Len(ret.claimed) : ret.claimed[k] = "gen01-004"
    /\ ret.ids = <<"gen01-005", "gen01-006">>


\* A step of the ideation pass that runs one strategy's generate().
GenerateStep ==
    /\ ipc = "generate"
    /\ ipc' = "append" \/ strategy_idx' = strategy_idx + 1

\* C20: within one ideation pass every strategy's generate() adds to the
\* claimed ids a batch of as many ids as it was asked for, whatever the model
\* call and the novelty filter do; the batch holds no id claimed earlier in
\* the pass and no id of a ledger row, so the batches are pairwise disjoint
\* and no id is issued twice.
C20_BatchesDisjoint ==
    [][GenerateStep =>
         LET issued == SubSeq(claimed_ids', Len(claimed_ids) + 1, Len(claimed_ids'))
         IN  /\ SubSeq(claimed_ids', 1, Len(claimed_ids)) = claimed_ids
             /\ Len(issued) = StrategyCounts[strategy_idx]
             /\ \A i, j \in 1..Len(claimed_ids') :
                   claimed_ids'[i] = claimed_ids'[j] => i = j
             /\ \A i \in 1..Len(issued) : issued[i] \notin IdsOfLedger(csv)]_vars

\* Both strategies have run, no idea came of either (a failed model call, no
\* parsed idea or a novelty rejection), and two different ids are claimed.
C20_Witness ==
    /\ ipc = "append"
    /\ all_ideas = <<>>
    /\ Len(claimed_ids) = 2
    /\ claimed_ids[1] # claimed_ids[2]
    /\ DataCount(csv) > 0


\* ------------------------------------------------------------- SpecNovelty
\* The ideation pass with the novelty filter computed as the code computes
\* it: embeddings are vectors, the similarity is their cosine, and a proposal
\* passes when its highest similarity to the corpus is below the threshold.

\* The most data rows the ledger grows to.
MaxNoveltyRows == 4

\* IdeationConfig.novelty_threshold, in hundredths
novelty_threshold == 92

\* The strategies' counts: a batch of two ideas, then a batch of one.
NoveltyCounts == <<2, 1>>

NoveltyDescriptions == {"idea", "idea!", "other"}

\* get_embedding: the vector the embedding service returns for a text. Two
\* near-duplicate texts get nearly parallel vectors, an unrelated one an
\* orthogonal vector.
get_embedding(text) ==
    CASE text = "idea" -> <<10, 0>>
      [] text = "idea!" -> <<10, 1>>
      [] text = "other" -> <<0, 10>>
      [] OTHER -> <<-7, -7>>

dot(a, b) == a[1] * b[1] + a[2] * b[2]

\* cosine_similarity(a, b) >= t / 100, decided on the squares:
\* dot / (norm_a * norm_b) >= t / 100.
cosine_at_least(a, b, t) ==
    /\ dot(a, b) >= 0
    /\ 10000 * dot(a, b) * dot(a, b) >= t * t * dot(a, a) * dot(b, b)

\* embedding.check_novelty: max_sim starts at 0.0 and the proposal is novel
\* when max_sim < threshold.
check_embedding_novelty(new_code, existing_codes, threshold) ==
    \A k \in 1..Len(existing_codes) :
        ~cosine_at_least(get_embedding(new_code), get_embedding(existing_codes[k]), threshold)

\* Ideator.check_novelty with novelty_enabled
check_novelty(description, existing) ==
    IF Len(existing) = 0 THEN TRUE
    ELSE check_embedding_novelty(description, existing, novelty_threshold)

descriptions(ideas) == [k \in 1..Len(ideas) |-> ideas[k].description]

\* run(): the ideas of one batch that pass check_novelty against the
\* existing descriptions and the ideas of all_ideas, which holds the ideas
\* accepted from the earlier batches.
novel_ideas(ideas, existing, accepted) ==
    Pick(ideas, {k \in 1..Len(ideas) :
                    check_novelty(ideas[k].description, existing \o descriptions(accepted))})

\* The file the model leaves: each stub row with a description filled in.
NoveltyEdits(ids, parent) ==
    {[k \in 1..Len(ids) |-> Row(ids[k], parent, d[k], "", "pending")] :
        d \in [1..Len(ids) -> NoveltyDescriptions]}

NoveltyLedgers ==
    {<<>>, <<HeaderRow, Row("gen01-001", "", "idea", "", "pending")>>,
     <<HeaderRow, Row("gen01-001", "", "other", "", "pending")>>}

InitNovelty ==
    /\ csv \in NoveltyLedgers
    /\ HistIdle
    /\ LockIdle
    /\ RunIdle
    /\ bad_args = FALSE
    /\ row_limit = MaxNoveltyRows
    /\ orphaned = {}

\* One pass of run()'s loop with the novelty filter computed.
NoveltyGenerate ==
    /\ ipc = "generate"
    /\ LET count == NoveltyCounts[strategy_idx]
           ids == get_next_ids(csv, context.generation, count, claimed_ids)
           temp_csv == csv \o stub_rows(ids, default_parent(strategy_idx))
       IN  /\ claimed_ids' = claim_ids(claimed_ids, ids)
           /\ \E error \in BOOLEAN, edit \in NoveltyEdits(ids, default_parent(strategy_idx)) :
                 LET edited == SubSeq(temp_csv, 1, Len(csv)) \o edit
                     ideas == IF error THEN <<>> ELSE parse_results(edited, ids)
                     novel == novel_ideas(ideas, context.existing_descriptions, all_ideas)
                 IN  /\ DataCount(csv) + Len(all_ideas) + Len(novel) <= row_limit
                     /\ all_ideas' = all_ideas \o novel
    /\ IF strategy_idx = Len(NoveltyCounts)
       THEN ipc' = "append" /\ UNCHANGED strategy_idx
       ELSE strategy_idx' = strategy_idx + 1 /\ UNCHANGED ipc
    /\ UNCHANGED <<csv, context, dispVars>>
    /\ IdeaFrame

NextNovelty ==
    \/ StartupCleanup
    \/ EnsureBaseline
    \/ StartIdeation
    \/ IdeateContext
    \/ NoveltyGenerate
    \/ IdeateAppend

SpecNovelty == InitNovelty /\ [][NextNovelty]_vars

TooSimilar(a, b) == cosine_at_least(get_embedding(a), get_embedding(b), novelty_threshold)

\* C21: every proposal the pass appends has a similarity below the threshold
\* to every description of the ledger and to every proposal accepted before it
\* in the pass, those of its own batch included.
C21_AppendedAreNovel ==
    ipc = "append" =>
        \A k \in 1..Len(all_ideas) :
            /\ \A i \in 1..Len(get_all_descriptions(csv)) :
                  ~TooSimilar(all_ideas[k].description, get_all_descriptions(csv)[i])
            /\ \A j \in 1..(k - 1) :
                  ~TooSimilar(all_ideas[k].description, all_ideas[j].description)


\* The worker's candidate names parents, none of them the baseline (whose
\* artifact is the user's source), and no file evolution_<parent>.py exists.
ParentsMissing(w) ==
    /\ candidate[w] # None
    /\ candidate[w].based_on_id # ""
    /\ \A k \in 1..Len(split_parents(candidate[w].based_on_id, "")) :
          LET tok == split_parents(candidate[w].based_on_id, "")[k]
          IN  tok # "baseline-000" /\ (tok \in ArtIds => art[tok] = "absent")

C23_NoEditFailsAIRetry ==
    [][\A w \in Slots :
          /\ (At(w, "ai") /\ wpc'[w] # "ai")
                => \/ wpc'[w] = "record_model" /\ art'[candidate[w].id] \in {"good", "bad"}
                   \/ wpc'[w] = "mark_77" /\ art'[candidate[w].id] = "absent"
          /\ (At(w, "mark_77") /\ wpc'[w] # "mark_77")
                => /\ wpc'[w] = "marked"
                   /\ art' = art
                   /\ status_of(csv', candidate[w].id) = "failed-ai-retry"
          /\ (At(w, "marked") /\ wpc'[w] # "marked") => wpc'[w] = "loop"]_vars

\* The model call failed for a candidate whose parent has a file: the target
\* is gone and the row reads failed-ai-retry.
C23_Witness ==
    /\ At(1, "marked")
    /\ candidate[1].id = "gen01-002"
    /\ candidate[1].based_on_id = "gen01-001"
    /\ art["gen01-001"] # "absent"
    /\ art["gen01-002"] = "absent"
    /\ status_of(csv, "gen01-002") = "failed-ai-retry"


\* The positions of the validator loop of process_candidate.
InValidation == {"validate", "fix", "record_fix", "fix_recorded", "fail_validation"}

\* C24: validation_attempt counts the validator runs before the current one
\* (0 at the first, one more after each recorded fix). The validator is run
\* with at most max_validation_retries runs before it and a fix is requested
\* with fewer than max_validation_retries before it; the loop is left for the
\* evaluator only from a validator run, and every other way out writes
\* failed-validation to the row and returns to run()'s loop.
C24_ValidationBounded ==
    [][\A w \in Slots :
          /\ (wpc'[w] = "validate" /\ wstate'[w] = "live")
                => /\ validation_attempt'[w] <= max_validation_retries
                   /\ wpc[w] = "syntax" => validation_attempt'[w] = 0
                   /\ wpc[w] = "fix_recorded" => validation_attempt'[w] = validation_attempt[w] + 1
                   /\ wpc[w] \in {"syntax", "fix_recorded", "validate"}
          /\ (wpc'[w] = "fix" /\ wstate'[w] = "live")
                => /\ validation_attempt'[w] < max_validation_retries
                   /\ wpc[w] \in {"validate", "fix"}
          /\ (wstate[w] = "live" /\ wpc[w] \in InValidation /\ wpc'[w] \notin InValidation
                /\ wstate'[w] = "live")
                => \/ wpc[w] = "validate" /\ wpc'[w] = "evaluate"
                   \/ /\ wpc[w] = "fail_validation" /\ wpc'[w] = "validation_failed"
                      /\ status_of(csv', candidate[w].id) = "failed-validation"
          /\ (At(w, "validation_failed") /\ wpc'[w] # "validation_failed")
                => wpc'[w] = "loop"]_vars

\* The validator failed max_validation_retries + 1 times, with a fix between
\* the runs, and the row reads failed-validation.
C24_Witness ==
    /\ At(1, "validation_failed")
    /\ validation_attempt[1] = max_validation_retries
    /\ status_of(csv, candidate[1].id) = "failed-validation"


\* ------------------------------------------------------------ SpecEvaluate
\* The evaluation of one candidate: _run_evaluator, _parse_evaluator_output
\* and the with block of process_candidate that records the outcome. The
\* evaluator's exit code, whether it ran into the timeout, and the lines of
\* its stdout + stderr are drawn from bounded sets.

\* The most lines of an evaluator's output.
MaxOutputLines == 3

PerformanceExtraLine == "{\"performance\": 1.5, \"extra\": \"y\"}"

\* Lines an evaluator prints: bare numbers, JSON objects with and without a
\* score, a JSON object whose performance is no number, broken JSON, a SCORE:
\* line and free text.
EvalLines ==
    {"0.5", "2", PerformanceExtraLine, "{\"score\": 2.5}", "{\"note\": \"x\"}",
     "{\"performance\": \"n/a\"}", "{oops", "SCORE: 2.5", "Epoch 1 done"}

\* Exit codes: success, an error, the memory wrapper's kill.
EvalReturnCodes == {0, 1, 137}

\* json.loads(line) succeeds with a dict.
json_valid(line) ==
    line \in {PerformanceExtraLine, "{\"score\": 2.5}", "{\"note\": \"x\"}",
              "{\"performance\": \"n/a\"}"}

\* json.loads(line): the dict, as the set of its <<key, value>> pairs.
json_loads(line) ==
    CASE line = PerformanceExtraLine -> {<<"performance", "1.5">>, <<"extra", "y">>}
      [] line = "{\"score\": 2.5}" -> {<<"score", "2.5">>}
      [] line = "{\"note\": \"x\"}" -> {<<"note", "x">>}
      [] line = "{\"performance\": \"n/a\"}" -> {<<"performance", "n/a">>}
      [] OTHER -> {}

has_key(data, key) == \E p \in data : p[1] = key

get_key(data, key) == (CHOOSE p \in data : p[1] = key)[2]

\* str(float(s)); "" stands for ValueError.
str_float(s) ==
    CASE s \in {"0.5", "1.5", "2.5"} -> s
      [] s = "2" -> "2.0"
      [] OTHER -> ""

\* re.search(r'^SCORE:\s*([+-]?\d*\.?\d+)', line).group(1), "" for no match
score_match(line) == IF line = "SCORE: 2.5" THEN "2.5" ELSE ""

RECURSIVE parse_lines(_, _, _)
\* The loop of _parse_evaluator_output from line k on: it stops at the first
\* line that is a JSON object (whether or not the object has a score) and at
\* the first line that is a number. A JSON object whose score is no number
\* stays in json_data and the loop goes on.
parse_lines(lines, k, json_data) ==
    IF k > Len(lines) THEN [score |-> "", json_data |-> json_data]
    ELSE LET line == strip(lines[k])
             data == json_loads(line)
             value == IF has_key(data, "performance") THEN get_key(data, "performance")
                      ELSE IF has_key(data, "score") THEN get_key(data, "score")
                      ELSE ""
         IN  IF startswith(line, "{") /\ json_valid(line)
             THEN (IF value = "" THEN [score |-> "", json_data |-> data]
                   ELSE IF str_float(value) # ""
                        THEN [score |-> str_float(value), json_data |-> data]
                        ELSE parse_lines(lines, k + 1, data))
             ELSE IF line # "" /\ ~startswith(line, "{") /\ str_float(line) # ""
                  THEN [score |-> str_float(line), json_data |-> json_data]
                  ELSE parse_lines(lines, k + 1, json_data)

\* The first line the SCORE: pattern matches, 0 when none does.
first_score_line(lines) ==
    LET M == {k \in 1..Len(lines) : score_match(lines[k]) # ""}
    IN  IF M = {} THEN 0 ELSE CHOOSE k \in M : \A l \in M : k <= l

\* _parse_evaluator_output: the score ("" for None) and json_data
parse_evaluator_output(lines) ==
    LET r == parse_lines(lines, 1, {})
    IN  IF r.score = "" /\ first_score_line(lines) # 0
        THEN [score |-> str_float(score_match(lines[first_score_line(lines)])),
              json_data |-> r.json_data]
        ELSE r

\* An evaluator run that reads the output whatever the exit code.
run_evaluator_any_exit(returncode, timed_out, lines) ==
    IF timed_out THEN [score |-> "", json_data |-> {}] ELSE parse_evaluator_output(lines)

\* _run_evaluator: (None, {}) on a timeout or a non-zero exit code
run_evaluator(returncode, timed_out, lines) ==
    IF timed_out \/ returncode # 0
    THEN [score |-> "", json_data |-> {}]
    ELSE parse_evaluator_output(lines)

\* The candidate being evaluated: its row is running, with or without a
\* performance left by an earlier evaluation, and its file is on disk.
EvalId == "gen01-001"

EvalLedgers == {<<HeaderRow, Row(EvalId, "", "idea", p, "running")>> : p \in {"", "0.5"}}

InitEvaluate ==
    /\ csv \in EvalLedgers
    /\ pre = csv
    /\ op = "init"
    /\ harness = HarnessIdle
    /\ backoff = BackoffIdle
    /\ workerpool = PoolIdle
    /\ pstree = TreeIdle
    /\ ret = None
    /\ art = [i \in ArtIds |-> IF i = EvalId THEN "good" ELSE "absent"]
    /\ LockIdle
    /\ bad_args = FALSE
    /\ row_limit = 0
    /\ orphaned = {}
    /\ dpc = "loop"
    /\ iteration = 0
    /\ workers = {}
    /\ reset_live = {}
    /\ wstate = [w \in Slots |-> "none"]
    /\ wexit = [w \in Slots |-> 0]
    /\ wpc = [w \in Slots |-> "main"]
    /\ current_candidate_id = [w \in Slots |-> ""]
    /\ candidate = [w \in Slots |-> None]
    /\ processed = [w \in Slots |-> 0]
    /\ validation_attempt = [w \in Slots |-> 0]
    /\ score = [w \in Slots |-> ""]
    /\ processing = [w \in Slots |-> ""]
    /\ signalled = [w \in Slots |-> NoSignal]
    /\ lock_holder = 0
    /\ faults = 0
    /\ ipc = "idle"
    /\ context = None
    /\ strategy_idx = 1
    /\ claimed_ids = <<>>
    /\ all_ideas = <<>>

\* process_candidate from "Run evaluator" to its return: the evaluator runs
\* and the outcome is written, failed for no score, else complete, the
\* performance and one column for every other key of json_data (ret.fields:
\* the model's rows have no columns beyond the fifth). One evaluation per
\* behaviour: the candidate is not claimed again.
EvaluateCandidate ==
    \E returncode \in EvalReturnCodes, timed_out \in BOOLEAN,
       output \in SeqsUpTo(EvalLines, MaxOutputLines) :
        LET r == run_evaluator(returncode, timed_out, output)
        IN  /\ op = "init"
            /\ csv' = IF r.score = ""
                      THEN update_candidate_status(csv, EvalId, "failed")
                      ELSE update_candidate_performance(
                               update_candidate_status(csv, EvalId, "complete"), EvalId, r.score)
            /\ pre' = csv
            /\ op' = "evaluate"
            /\ UNCHANGED <<harness, backoff, workerpool, pstree>>
            /\ ret' = [returncode |-> returncode, timed_out |-> timed_out, output |-> output,
                       fields |-> IF r.score = "" THEN {}
                                  ELSE {p \in r.json_data : p[1] \notin {"performance", "score"}}]
            /\ UNCHANGED <<lockVars, sysVars>>

NextEvaluate == EvaluateCandidate

SpecEvaluate == InitEvaluate /\ [][NextEvaluate]_vars

C26_LastJsonWins ==
    (/\ op = "evaluate"
     /\ ret.returncode = 0
     /\ ~ret.timed_out
     /\ Len(ret.output) > 0
     /\ ret.output[Len(ret.output)] = PerformanceExtraLine)
        => /\ csv[2].status = "complete"
           /\ csv[2].perf = "1.5"
           /\ <<"extra", "y">> \in ret.fields


\* ------------------------------------------------------------- SpecSandbox
\* run_sandboxed with a memory limit: the child process, the main thread
\* that waits on it in communicate(), and the monitor thread that runs
\* monitor_and_kill and whose return value becomes memory_error. Signals are
\* delivered asynchronously: a child that does not ignore SIGTERM dies of it
\* at any moment after it was sent.

MemoryMessage == "Memory limit exceeded"

\* The exit codes of a child that ends by itself.
ChildExitCodes == {0, 1}

InitSandbox ==
    /\ csv = <<>>
    /\ pre = <<>>
    /\ op = "init"
    /\ ret = None
    /\ \E it \in BOOLEAN :
          harness = [main |-> "communicate", monitor |-> "poll", child |-> "running",
                     status |-> 0, over |-> FALSE, ignores_term |-> it,
                     observed |-> FALSE, term_sent |-> FALSE, kill_sent |-> FALSE,
                     alive_after_wait |-> FALSE, memory_error |-> "",
                     returncode |-> 0, message |-> ""]
    /\ backoff = BackoffIdle
    /\ workerpool = PoolIdle
    /\ pstree = TreeIdle
    /\ LockIdle
    /\ SysIdle

SandboxFrame ==
    UNCHANGED <<csv, pre, op, ret, backoff, workerpool, pstree, lockVars, sysVars>>

Running == harness.main # "idle" /\ harness.child = "running"

\* The child ends by itself.
ChildExits ==
    /\ Running
    /\ \E code \in ChildExitCodes :
          harness' = [harness EXCEPT !.child = "exited", !.status = code]
    /\ SandboxFrame

\* The process tree's resident memory rises above the limit.
MemoryGrows ==
    /\ Running
    /\ ~harness.over
    /\ harness' = [harness EXCEPT !.over = TRUE]
    /\ SandboxFrame

\* The child dies of the SIGTERM, or of the SIGKILL, sent to its group.
ChildKilled ==
    /\ Running
    /\ \/ /\ harness.kill_sent
          /\ harness' = [harness EXCEPT !.child = "exited", !.status = -9]
       \/ /\ harness.term_sent /\ ~harness.ignores_term
          /\ harness' = [harness EXCEPT !.child = "exited", !.status = -15]
    /\ SandboxFrame

\* monitor_and_kill: while process.poll() is None, the memory is measured;
\* above the limit the thread goes on to kill, else it sleeps and polls again.
\* A child that has ended ends the loop: monitor_and_kill returns None.
MonitorPoll ==
    /\ harness.monitor = "poll"
    /\ \/ /\ harness.child = "exited"
          /\ harness' = [harness EXCEPT !.monitor = "done"]
       \/ /\ harness.child = "running" /\ harness.over
          /\ harness' = [harness EXCEPT !.monitor = "term", !.observed = TRUE]
    /\ SandboxFrame

\* os.killpg(pgid, SIGTERM), then time.sleep(2). ProcessLookupError (the
\* child was reaped by the main thread) skips both.
MonitorTerm ==
    /\ harness.monitor = "term"
    /\ IF harness.child = "exited" /\ harness.main # "communicate"
       THEN harness' = [harness EXCEPT !.monitor = "set"]
       ELSE harness' = [harness EXCEPT !.monitor = "sleep", !.term_sent = TRUE]
    /\ SandboxFrame

\* After the two seconds: if process.poll() is None: os.killpg(pgid, SIGKILL)
MonitorWake ==
    /\ harness.monitor = "sleep"
    /\ harness' = [harness EXCEPT !.monitor = "set",
                                  !.alive_after_wait = (harness.child = "running"),
                                  !.kill_sent = (harness.child = "running")]
    /\ SandboxFrame

\* monitor_and_kill returns its message and monitor() assigns memory_error.
MonitorSet ==
    /\ harness.monitor = "set"
    /\ harness' = [harness EXCEPT !.monitor = "done", !.memory_error = MemoryMessage]
    /\ SandboxFrame

\* process.communicate(timeout=timeout_seconds) returns: the child has ended.
MainCommunicate ==
    /\ harness.main = "communicate"
    /\ harness.child = "exited"
    /\ harness' = [harness EXCEPT !.main = "check"]
    /\ SandboxFrame

\* communicate raises TimeoutExpired: the group is sent SIGTERM and, after
\* two seconds, SIGKILL if the child still runs; the result is 124.
MainTimeout ==
    /\ harness.main = "communicate"
    /\ harness.child = "running"
    /\ harness' = [harness EXCEPT !.main = "returned", !.child = "exited",
                                  !.status = IF harness.ignores_term THEN -9 ELSE -15,
                                  !.returncode = 124, !.message = "Timeout"]
    /\ SandboxFrame

\* if memory_error: return 137, "", memory_error; else the child's exit code
MainCheck ==
    /\ harness.main = "check"
    /\ harness' = IF harness.memory_error # ""
                  THEN [harness EXCEPT !.main = "returned", !.returncode = 137,
                                       !.message = harness.memory_error]
                  ELSE [harness EXCEPT !.main = "returned",
                                       !.returncode = harness.status]
    /\ SandboxFrame

NextSandbox ==
    \/ ChildExits
    \/ MemoryGrows
    \/ ChildKilled
    \/ MonitorPoll
    \/ MonitorTerm
    \/ MonitorWake
    \/ MonitorSet
    \/ MainCommunicate
    \/ MainTimeout
    \/ MainCheck

SpecSandbox == InitSandbox /\ [][NextSandbox]_vars

\* C27: once the monitor thread has observed the memory above the limit,
\* SIGTERM is sent to the group (unless the child is already gone), SIGKILL
\* is sent only when the child is alive after the wait, and the harness
\* once it has sent SIGTERM returns 137 with the message Memory limit
\* exceeded (unless the wall-clock timeout came first), however the monitor's
\* steps interleave with the main thread's.
C27_MemoryKillReturns137 ==
    harness.main # "idle" =>
        /\ (harness.observed /\ harness.monitor \in {"sleep", "set", "done"})
              => (harness.term_sent \/ harness.child = "exited")
        /\ harness.kill_sent => harness.alive_after_wait
        /\ (harness.term_sent /\ harness.main = "returned" /\ harness.message # "Timeout")
              => (harness.returncode = 137 /\ harness.message = MemoryMessage)


\* ------------------------------------------------------------- SpecBackoff
\* A worker's model call: call_ai_with_backoff runs its rounds over the pool,
\* _call_ai_with_backoff and process_candidate turn the outcome into a return
\* code, and run() acts on that code. The steps of process_candidate after a
\* successful edit are those of SpecProcess; here they are their outcome.

MaxModels == 2
MaxRounds == 3
MaxWaitSeconds == 3

\* The exit codes of the ai-cli subprocess: success, an error, a rate limit,
\* an exhausted quota. (A timeout, 124, is one more class of AIError.)
ModelExitCodes == {0, 1, 2, 3}

\* call_ai_model: the exception raised for an exit code, "ok" for none
call_ai_model(exit_code) ==
    IF exit_code = 124 THEN "TimeoutError"
    ELSE IF exit_code = 2 THEN "RateLimitError"
    ELSE IF exit_code = 3 THEN "APIExhaustedError"
    ELSE IF exit_code # 0 THEN "AIError"
    ELSE "ok"

\* random.shuffle(shuffled_models): any order of the pool's entries
Shuffles(m) == {s \in [1..m -> 1..m] : \A i, j \in 1..m : s[i] = s[j] => i = j}

Min(a, b) == IF a <= b THEN a ELSE b

\* wait_time = min(wait_time * 2, max_wait)
next_wait(wait_time, max_wait) == Min(wait_time * 2, max_wait)

\* if round_num < max_rounds - 1: sleep
sleeps_after_every_round(round_num, max_rounds) == TRUE

sleeps_after(round_num, max_rounds) == round_num < max_rounds - 1

BackoffId == "gen01-001"

\* The candidate is claimed (running), its file is the copy of its parent,
\* and the worker calls call_ai_with_backoff with a pool of m entries.
InitBackoff ==
    /\ csv = <<HeaderRow, Row(BackoffId, "", "idea", "", "running")>>
    /\ pre = csv
    /\ op = "init"
    /\ ret = None
    /\ harness = HarnessIdle
    /\ \E m \in 1..MaxModels, R \in 0..MaxRounds,
          W \in 1..MaxWaitSeconds, Wmax \in 1..MaxWaitSeconds :
          backoff = [pc |-> "round", models |-> m, max_rounds |-> R,
                     initial_wait |-> W, max_wait |-> Wmax,
                     round_num |-> 0, shuffled_models |-> <<>>, k |-> 0,
                     wait_time |-> W, calls |-> <<>>, errors |-> {},
                     sleeps |-> <<>>, outcome |-> "", exit_code |-> 0,
                     worker_exit |-> 0]
    /\ workerpool = PoolIdle
    /\ pstree = TreeIdle
    /\ LockIdle
    /\ SysIdle

BackoffFrame ==
    UNCHANGED <<pre, op, ret, harness, workerpool, pstree, lockVars, sysVars>>

\* for round_num in range(max_rounds): the pool is shuffled. After the last
\* round: raise AIError("All ... rounds exhausted")
BackoffRound ==
    /\ backoff.pc = "round"
    /\ \/ /\ backoff.round_num < backoff.max_rounds
          /\ \E s \in Shuffles(backoff.models) :
                backoff' = [backoff EXCEPT !.pc = "model", !.shuffled_models = s, !.k = 1]
       \/ /\ backoff.round_num >= backoff.max_rounds
          /\ backoff' = [backoff EXCEPT !.pc = "raised", !.outcome = "raised"]
    /\ UNCHANGED csv
    /\ BackoffFrame

\* for model in shuffled_models: call_ai_model; a success returns, an AIError
\* (of any class) is noted in last_errors and the loop goes on. calls is the
\* history of the invocations: the round, the model, whether it succeeded.
BackoffInvoke ==
    /\ backoff.pc = "model"
    /\ \E exit_code \in ModelExitCodes :
          LET model == backoff.shuffled_models[backoff.k]
              r == call_ai_model(exit_code)
              called == Append(backoff.calls, <<backoff.round_num, model, r = "ok">>)
          IN  backoff' =
                 IF r = "ok"
                 THEN [backoff EXCEPT !.pc = "returned", !.outcome = "returned",
                                      !.calls = called]
                 ELSE [backoff EXCEPT !.calls = called, !.errors = @ \cup {r},
                                      !.k = @ + 1,
                                      !.pc = IF backoff.k < backoff.models
                                             THEN "model" ELSE "after_round"]
    /\ UNCHANGED csv
    /\ BackoffFrame

\* All models failed in this round: but for the last round, time.sleep(wait_time)
\* and the wait doubles up to max_wait.
BackoffAfterRound ==
    /\ backoff.pc = "after_round"
    /\ backoff' =
          IF sleeps_after(backoff.round_num, backoff.max_rounds)
          THEN [backoff EXCEPT !.pc = "round", !.round_num = @ + 1,
                               !.sleeps = Append(@, backoff.wait_time),
                               !.wait_time = next_wait(@, backoff.max_wait)]
          ELSE [backoff EXCEPT !.pc = "round", !.round_num = @ + 1]
    /\ UNCHANGED csv
    /\ BackoffFrame

\* _call_ai_with_backoff: True when the call returned and the file's hash
\* changed, False when it did not change or an AIError ended the call.
\* process_candidate returns 77 for False; after a successful edit it goes on
\* to the checks and the evaluation, writes complete or failed, and returns
\* 0 or 1.
WorkerAIResult ==
    /\ backoff.pc \in {"returned", "raised"}
    /\ \E changed \in BOOLEAN, status \in {"complete", "failed"} :
          IF backoff.pc = "returned" /\ changed
          THEN /\ csv' = update_candidate_status(csv, BackoffId, status)
               /\ backoff' = [backoff EXCEPT !.pc = "run",
                                !.exit_code = IF status = "complete" THEN 0 ELSE 1]
          ELSE /\ csv' = csv
               /\ backoff' = [backoff EXCEPT !.pc = "run", !.exit_code = 77]
    /\ BackoffFrame

\* run(): 77 is written as failed-ai-retry, 2 and 3 end the loop with that
\* code; otherwise the loop goes on, finds no pending candidate and returns 0.
WorkerRunExit ==
    /\ backoff.pc = "run"
    /\ csv' = IF backoff.exit_code = 77
              THEN update_candidate_status(csv, BackoffId, "failed-ai-retry")
              ELSE csv
    /\ backoff' = [backoff EXCEPT !.pc = "exited",
                     !.worker_exit = IF backoff.exit_code \in {2, 3}
                                     THEN backoff.exit_code ELSE 0]
    /\ BackoffFrame

NextBackoff ==
    \/ BackoffRound
    \/ BackoffInvoke
    \/ BackoffAfterRound
    \/ WorkerAIResult
    \/ WorkerRunExit

SpecBackoff == InitBackoff /\ [][NextBackoff]_vars

\* The scheduler runs a worker that can take a step.
SpecBackoffFair == SpecBackoff /\ WF_vars(NextBackoff)

\* C28: a worker whose model call ended with every invocation reporting an
\* exhausted quota exits with code 3, and with every invocation reporting a
\* rate limit exits with code 2.
C28_QuotaExits3 ==
    (backoff.pc = "exited" /\ backoff.outcome = "raised" /\ backoff.calls # <<>>)
        => /\ backoff.errors = {"APIExhaustedError"} => backoff.worker_exit = 3
           /\ backoff.errors = {"RateLimitError"} => backoff.worker_exit = 2


\* The call has ended: it returned an output or raised its AIError.
BackoffEnded == backoff.outcome # ""

\* Round n (from 0) failed in full: every entry of the pool was invoked in it
\* and none succeeded.
RoundFailed(n) ==
    \A model \in 1..backoff.models :
        \E i \in 1..Len(backoff.calls) : backoff.calls[i] = <<n, model, FALSE>>

BackoffBounded ==
    LET calls == backoff.calls
        R == backoff.max_rounds
        m == backoff.models
    IN  /\ \A i \in 1..Len(calls) : calls[i][1] < R
        /\ \A i, j \in 1..Len(calls) :
              (calls[i][1] = calls[j][1] /\ calls[i][2] = calls[j][2]) => i = j
        /\ \A i \in 1..Len(calls) : calls[i][3] => i = Len(calls)
        /\ backoff.outcome = "returned" =>
              (calls # <<>> /\ calls[Len(calls)][3] /\ backoff.pc # "model")
        /\ Len(backoff.sleeps) <= (IF R = 0 THEN 0 ELSE R - 1)
        /\ \A n \in 1..Len(backoff.sleeps) : RoundFailed(n - 1) /\ n - 1 < R - 1
        /\ backoff.outcome = "raised" =>
              /\ Len(calls) = R * m
              /\ \A n \in 0..(R - 1) : RoundFailed(n)

\* C29: call_ai_with_backoff with a pool of m entries and max_rounds = R
\* ends; it runs at most R rounds, invokes each entry at most once a round,
\* invokes nothing after a success, sleeps only after a fully failed round
\* that is not the last (at most R-1 times), and raises only after R fully
\* failed rounds, that is R*m invocations.
C29_BackoffTerminates ==
    (backoff.pc # "idle") => ([]BackoffBounded /\ <>BackoffEnded)

C29_Witness ==
    /\ backoff.outcome = "raised"
    /\ backoff.max_rounds = MaxRounds
    /\ backoff.models = MaxModels
    /\ Len(backoff.calls) = MaxRounds * MaxModels
    /\ Len(backoff.sleeps) = MaxRounds - 1

\* C30: the first sleep is initial_wait, each later one is twice the one
\* before capped at max_wait, and no sleep is longer than max_wait.
C30_SleepWithinMaxWait ==
    backoff.pc # "idle" =>
        LET sleeps == backoff.sleeps
        IN  /\ sleeps # <<>> => sleeps[1] = backoff.initial_wait
            /\ \A n \in 2..Len(sleeps) :
                  sleeps[n] = Min(2 * sleeps[n - 1], backoff.max_wait)
            /\ \A n \in 1..Len(sleeps) : sleeps[n] <= backoff.max_wait


\* ---------------------------------------------------------------- SpecPool
\* The dispatcher's loop with its WorkerPool: the processes have ids of
\* their own, more of them than max_workers, and each worker claims one
\* candidate, records its outcome and exits, or exits early.

MaxPoolRows == 3
MaxPids == 3

PoolPids == 1..MaxPids

PoolIds == <<"gen01-001", "gen01-002", "gen02-001", "gen02-002", "baseline-000">>

PoolLedger(n) ==
    <<HeaderRow>> \o [i \in 1..n |-> Row(PoolIds[i], "", "idea", "", "pending")]

\* The exit code of a worker that ends before its loop does: the 2 of a
\* rejected command line. (To the dispatcher any other code is as 0.)
PoolExitCodes == {2}

NoProc == [st |-> "none", id |-> "", code |-> 0]

InitPool ==
    /\ \E n \in 0..Min(MaxPoolRows, Len(PoolIds)) : csv = PoolLedger(n)
    /\ pre = <<>>
    /\ op = "init"
    /\ ret = None
    /\ harness = HarnessIdle
    /\ backoff = BackoffIdle
    /\ pstree = TreeIdle
    /\ \E auto_ideate \in BOOLEAN, meta_learning \in BOOLEAN :
          workerpool = [pc |-> "loop", iteration |-> 0, workers |-> {},
                        proc |-> [p \in PoolPids |-> NoProc], next_pid |-> 1,
                        pending |-> 0, spawned |-> {},
                        auto_ideate |-> auto_ideate, meta_learning |-> meta_learning]
    /\ LockIdle
    /\ SysIdle

PoolFrame == UNCHANGED <<pre, op, ret, harness, backoff, pstree, lockVars, sysVars>>

\* Ideation whenever it is switched on.
ideate_when_enabled(auto_ideate, st) == auto_ideate

\* should_ideate: auto_ideate is on and enough rows are complete
should_ideate_configured(auto_ideate, st) == auto_ideate /\ should_ideate(st)

\* The spawn loop without a cap: a worker for every pending row.
RECURSIVE spawn_uncapped(_, _, _)
spawn_uncapped(pids, pending, next_pid) ==
    IF pending > 0 /\ next_pid <= MaxPids
    THEN spawn_uncapped(pids \cup {next_pid}, pending - 1, next_pid + 1)
    ELSE pids

\* spawn_worker: None (0) at capacity or when Popen fails (no process id is
\* left), else the new process's id
spawn_worker(pids, next_pid) ==
    IF Cardinality(pids) >= max_workers THEN 0
    ELSE IF next_pid > MaxPids THEN 0
    ELSE next_pid

\* while stats['pending'] > 0 and self.pool.active_count < max_workers:
\*     pid = spawn_worker(); if pid is None: break; stats['pending'] -= 1
RECURSIVE spawn_workers(_, _, _)
spawn_workers(pids, pending, next_pid) ==
    IF pending > 0 /\ Cardinality(pids) < max_workers
    THEN LET pid == spawn_worker(pids, next_pid)
         IN  IF pid = 0 THEN pids
             ELSE spawn_workers(pids \cup {pid}, pending - 1, next_pid + 1)
    ELSE pids

\* run(): one pass of the loop. cleanup_finished() drops the exited
\* processes; an exit code 2 or 3 among them leads to the pause and
\* cleanup_csv(); else the periodic reset, the stats, with nothing pending and
\* an empty pool a reset and the stats again; when still nothing is pending,
\* meta-learning (if switched on) and ideation, or the end of the run; else
\* the spawn loop.
PoolIteration ==
    /\ workerpool.pc = "loop"
    /\ LET finished == {p \in workerpool.workers : workerpool.proc[p].st = "exited"}
           exit_codes == {workerpool.proc[p].code : p \in finished}
           kept == workerpool.workers \ finished
           iter == (workerpool.iteration + 1) % 5
           periodic == iter = 0 /\ kept = {}
           rows1 == IF periodic THEN reset_stuck_candidates(csv) ELSE csv
           idle == get_csv_stats(rows1).pending = 0 /\ kept = {}
           rows2 == IF idle THEN reset_stuck_candidates(rows1) ELSE rows1
           st == get_csv_stats(rows2)
           pids == spawn_workers(kept, st.pending, workerpool.next_pid)
           new == pids \ kept
           reaped == [p \in PoolPids |-> IF p \in finished THEN NoProc
                                         ELSE workerpool.proc[p]]
       IN  IF 2 \in exit_codes \/ 3 \in exit_codes
           THEN /\ csv' = cleanup_csv(csv)
                /\ workerpool' = [workerpool EXCEPT !.iteration = iter, !.workers = kept,
                                     !.proc = reaped, !.spawned = {}]
           ELSE IF idle /\ st.pending = 0
           THEN /\ csv' = rows2
                /\ workerpool' = [workerpool EXCEPT
                                     !.pc = IF should_ideate_configured(workerpool.auto_ideate, st)
                                            THEN (IF workerpool.meta_learning
                                                  THEN "meta" ELSE "ideate")
                                            ELSE "done",
                                     !.iteration = iter,
                                     !.workers = kept, !.proc = reaped,
                                     !.pending = 0, !.spawned = {}]
           ELSE /\ csv' = rows2
                /\ workerpool' =
                      [workerpool EXCEPT
                          !.iteration = iter, !.workers = pids,
                          !.proc = [p \in PoolPids |->
                                       IF p \in new
                                       THEN [st |-> "live", id |-> "", code |-> 0]
                                       ELSE reaped[p]],
                          !.next_pid = @ + Cardinality(new),
                          !.pending = st.pending, !.spawned = new]
    /\ PoolFrame

\* process_new_generations(...): the notes file is not part of the model.
PoolMetaLearning ==
    /\ workerpool.pc = "meta"
    /\ workerpool' = [workerpool EXCEPT !.pc = "ideate"]
    /\ UNCHANGED csv
    /\ PoolFrame

\* run_ideation(): the ideation subprocess appends a pending row (while the
\* ledger has room) or nothing; either way the loop goes on.
PoolIdeation ==
    /\ workerpool.pc = "ideate"
    /\ \E appended \in BOOLEAN :
          csv' = IF appended /\ DataCount(csv) < Min(MaxPoolRows, Len(PoolIds))
                 THEN append_candidates(csv,
                        <<Row(PoolIds[DataCount(csv) + 1], "", "idea", "", "pending")>>)
                 ELSE csv
    /\ workerpool' = [workerpool EXCEPT !.pc = "loop"]
    /\ PoolFrame

\* Worker.run: get_next_pending_candidate() claims a row; with none pending
\* the worker exits with 0.
PoolWorkerClaim(p) ==
    /\ workerpool.proc[p].st = "live"
    /\ LET r == get_next_pending_candidate(csv)
       IN  /\ csv' = r.rows
           /\ workerpool' =
                 [workerpool EXCEPT !.proc[p] =
                     IF r.result = None THEN [st |-> "exited", id |-> "", code |-> 0]
                     ELSE [st |-> "claimed", id |-> r.result.id, code |-> 0]]
    /\ PoolFrame

\* The candidate's outcome is written and, max_candidates being reached, the
\* worker exits with 0.
PoolWorkerFinish(p) ==
    /\ workerpool.proc[p].st = "claimed"
    /\ \E status \in {"complete", "failed"} :
          csv' = update_candidate_status(csv, workerpool.proc[p].id, status)
    /\ workerpool' = [workerpool EXCEPT !.proc[p] = [st |-> "exited", id |-> "", code |-> 0]]
    /\ PoolFrame

\* A worker ends early: its command line is rejected, or it dies.
PoolWorkerExit(p) ==
    /\ workerpool.proc[p].st \in {"live", "claimed"}
    /\ \E code \in PoolExitCodes :
          workerpool' = [workerpool EXCEPT !.proc[p] = [st |-> "exited", id |-> "", code |-> code]]
    /\ UNCHANGED csv
    /\ PoolFrame

NextPool ==
    \/ PoolIteration
    \/ PoolMetaLearning
    \/ PoolIdeation
    \/ \E p \in PoolPids : PoolWorkerClaim(p)
    \/ \E p \in PoolPids : PoolWorkerFinish(p)
    \/ \E p \in PoolPids : PoolWorkerExit(p)

SpecPool == InitPool /\ [][NextPool]_vars

LivePids == {p \in PoolPids : workerpool.proc[p].st \in {"live", "claimed"}}

\* C31: the worker processes the dispatcher spawned and that still run are at
\* most max_workers, and processes were spawned in a pass only when the
\* stats that pass read showed a pending row.
C31_PoolBounded ==
    workerpool.pc # "idle" =>
        /\ Cardinality(LivePids) <= max_workers
        /\ Cardinality(workerpool.workers) <= max_workers
        /\ workerpool.spawned # {} =>
              (workerpool.pending > 0
               /\ Cardinality(workerpool.spawned) <= workerpool.pending)

C31_Witness ==
    /\ Cardinality(LivePids) = max_workers
    /\ workerpool.pending > max_workers
    /\ workerpool.next_pid > max_workers + 1


\* The dispatcher leaves its loop for meta-learning, ideation or the end of
\* the run in this step.
LeavesLoop == workerpool.pc = "loop" /\ workerpool'.pc \in {"meta", "ideate", "done"}

InitBaseline ==
    /\ csv = <<>>
    /\ bad_args = FALSE
    /\ row_limit = MaxLedgerRows
    /\ orphaned = {}
    /\ HistIdle
    /\ LockIdle
    /\ RunIdle

\* _run_evaluator returns a score.
WorkerEvaluateScored(w) ==
    /\ At(w, "evaluate")
    /\ \E sc \in ScoreSet :
          /\ score' = [score EXCEPT ![w] = sc]
          /\ Goto(w, "complete")
    /\ UNCHANGED <<csv, wstate, wexit, current_candidate_id, candidate, processed,
                   validation_attempt, processing, signalled, orphaned,
                   lock_holder, art, faults>>
    /\ OtherFrame

WorkerStepScored(w) ==
    \/ WorkerMain(w) \/ WorkerClaim(w) \/ WorkerDone(w) \/ LeaveClaim(w)
    \/ WorkerInfo(w) \/ LeaveInfo(w) \/ WorkerProcess(w)
    \/ WorkerAIReturn(w) \/ WorkerRecordModel(w) \/ LeaveRecord(w) \/ WorkerSyntax(w)
    \/ WorkerRequeue(w) \/ WorkerValidate(w) \/ WorkerFixReturn(w) \/ WorkerRecordFix(w)
    \/ WorkerFailValidation(w) \/ WorkerEvaluateScored(w)
    \/ WorkerCompleteStatus(w) \/ WorkerCompletePerformance(w) \/ WorkerMark(w)
    \/ LeaveOutcome(w)

NextBaseline ==
    \/ StartupCleanup
    \/ EnsureBaseline
    \/ PollIteration
    \/ IdeateContext
    \/ IdeateGenerate
    \/ IdeateAppend
    \/ \E w \in Slots : WorkerStepScored(w)

\* The startup preamble.
StartupStep == StartupCleanup \/ EnsureBaseline

\* PollIteration can be taken: the dispatcher is in its loop, and the ledger
\* is not locked unless the pass ends at the pause. (The pass changes
\* iteration, so it is never a stuttering step.)
PollEnabled ==
    /\ dpc = "loop"
    /\ \/ lock_holder = 0
       \/ \E w \in workers : wstate[w] = "exited" /\ wexit[w] \in {2, 3}

\* The dispatcher and every worker process are scheduled: weak fairness of
\* the startup preamble, of the pass of the loop and of each worker's steps
\* (nothing is assumed of the ideation subprocess). For PollIteration the
\* condition WF_vars(PollIteration) is written with PollEnabled in the place
\* of ENABLED <<PollIteration>>_vars.
SpecBaseline ==
    /\ InitBaseline
    /\ [][NextBaseline]_vars
    /\ WF_vars(StartupStep)
    /\ ([]<>~PollEnabled \/ []<><<PollIteration>>_vars)
    /\ \A w \in Slots : WF_vars(WorkerStepScored(w))

BaselineIdx(rows) == {i \in DataIdx(rows) : clean_id(rows[i].id) = "baseline-000"}

\* The positions of process_candidate between the copy of the parent and the
\* evaluation.
EditPositions ==
    {"ai", "record_model", "model_recorded", "syntax", "requeue", "requeued",
     "validate", "fix", "record_fix", "fix_recorded", "fail_validation",
     "validation_failed", "mark_77"}

BaselineUntouched ==
    /\ art["baseline-000"] = "absent"
    /\ \A w \in Slots :
          (wstate[w] = "live" /\ candidate[w] # None /\ wpc[w] \in EditPositions)
             => candidate[w].id # "baseline-000"

BaselineComplete ==
    \E i \in BaselineIdx(csv) : csv[i].status = "complete" /\ is_float(csv[i].perf)

\* C33: from an empty ledger the dispatcher appends one baseline-000 row,
\* pending; the ledger has exactly one such row from then on; the row
\* eventually is complete with a numeric performance; and no copy of a
\* parent and no edit is ever made for it.
C33_BaselineCompletes ==
    /\ [][EnsureBaseline =>
             /\ BaselineIdx(csv) = {}
             /\ \E i \in BaselineIdx(csv') : csv'[i].status = "pending"]_vars
    /\ [](dpc \notin {"cleanup", "baseline"} => Cardinality(BaselineIdx(csv)) = 1)
    /\ []BaselineUntouched
    /\ <>BaselineComplete

C33_Witness ==
    /\ BaselineComplete
    /\ art["baseline-000"] = "absent"
    /\ \E w \in Slots : wpc[w] = "completed" /\ candidate[w].id = "baseline-000"


\* C34: no two processes are at the same time between a successful flock
\* of the lock file and their flock(LOCK_UN).
C34_MutualExclusion ==
    \A p, q \in Procs : (InLockContext(p) /\ InLockContext(q)) => p = q


\* C35: a process that writes the ledger back writes rows it read from the
\* ledger as it still is: no write of another process came in between.
C35_NoStaleWrite ==
    [][\A p \in Procs :
          (lpc[p] = "write" /\ lpc'[p] = "unlock") => lrows[p] = csv]_vars


\* The data rows that are complete with a numeric performance.
Settled(rows) ==
    {i \in DataIdx(rows) : strip(rows[i].status) = "complete" /\ is_float(rows[i].perf)}

\* C36: a row that is complete with a numeric performance keeps that status
\* and that performance in every step of a worker, of the dispatcher and of
\* ideation.
C36_CompleteIsFinal ==
    [][\A i \in Settled(csv) :
          \E j \in DataIdx(csv') :
             /\ clean_id(csv'[j].id) = clean_id(csv[i].id)
             /\ csv'[j].status = csv[i].status
             /\ csv'[j].perf = csv[i].perf]_vars


\* C37: the signal handler changes the ledger only in the row that its worker
\* holds claimed: the id it resets is the one the worker has claimed and not
\* yet recorded an outcome for, and no other live worker is processing it.
C37_HandlerWritesOwnRow ==
    [][\A w \in Slots :
          (HandlerExit(w) /\ csv' # csv)
             => /\ signalled[w].id = current_candidate_id[w]
                /\ ProcessedBy(current_candidate_id[w]) \subseteq {w}]_vars


\* The ledger has a row with the id.
InLedger(id) == \E i \in DataIdx(csv) : clean_id(csv[i].id) = id

\* C38: with the dispatcher and the workers scheduled and every LLM,
\* validator and evaluator call returning, every candidate row eventually has
\* a terminal status.
C38_EveryRowTerminates ==
    \A id \in ArtIds :
        InLedger(id) ~> (lower(strip(status_of(csv, id))) \in TerminalStatuses)


\* ---------------------------------------------------------------- SpecTree
\* The memory monitors' reading of the evaluated child's process tree:
\* get_process_tree_memory_native (memory_limit_wrapper.py) and
\* get_process_tree_memory (sandbox_wrapper.py), applied to the processes
\* that ps lists. Values are in KB, as ps prints them; the monitors compare
\* total_kb / 1024.0 with the limit in MB.

MaxTreeProcs == 3
MaxRss == 2

TreePids == 1..MaxTreeProcs

\* process.pid; the child calls setsid, so its process group is its pid.
RootPid == 1

NoProcess == [present |-> FALSE]

\* A process other than the root child, as ps lists it: its parent (0: a
\* process outside the table), its resident set size, and whether it has
\* left the root child's process group for one of its own.
ListedStates ==
    {NoProcess} \cup
    [present : {TRUE}, ppid : 0..MaxTreeProcs, rss : 1..MaxRss, own_group : BOOLEAN]

\* The table of processes: the root child and the others.
ProcessTable(root_rss, others) ==
    [k \in TreePids |->
        IF k = RootPid
        THEN [present |-> TRUE, ppid |-> 0, rss |-> root_rss, pgid |-> RootPid]
        ELSE IF others[k].present
             THEN [present |-> TRUE, ppid |-> others[k].ppid, rss |-> others[k].rss,
                   pgid |-> IF others[k].own_group THEN k ELSE RootPid]
             ELSE NoProcess]

\* The pid is below the ancestor, at most n parent links up.
RECURSIVE IsUnder(_, _, _, _)
IsUnder(procs, k, ancestor, n) ==
    /\ n > 0
    /\ procs[k].present
    /\ procs[k].ppid # 0
    /\ \/ procs[k].ppid = ancestor
       \/ IsUnder(procs, procs[k].ppid, ancestor, n - 1)

\* The parent links form a forest of live processes.
WellFormed(procs) ==
    \A k \in TreePids :
        procs[k].present =>
            /\ ~IsUnder(procs, k, k, MaxTreeProcs)
            /\ procs[k].ppid # 0 => procs[procs[k].ppid].present

InitTree ==
    /\ csv = <<>>
    /\ pre = <<>>
    /\ op = "init"
    /\ ret = None
    /\ harness = HarnessIdle
    /\ backoff = BackoffIdle
    /\ workerpool = PoolIdle
    /\ \E root_rss \in 1..MaxRss, others \in [TreePids \ {RootPid} -> ListedStates] :
          /\ WellFormed(ProcessTable(root_rss, others))
          /\ pstree = [pc |-> "ps", procs |-> ProcessTable(root_rss, others), total_kb |-> 0]
    /\ LockIdle
    /\ SysIdle

TreeFrame == UNCHANGED <<csv, pre, op, ret, harness, backoff, workerpool, lockVars, sysVars>>

\* ps_result.stdout lines: the pids listed, in ascending order.
RECURSIVE ps_lines(_, _)
ps_lines(procs, k) ==
    IF k > MaxTreeProcs THEN <<>>
    ELSE (IF procs[k].present THEN <<k>> ELSE <<>>) \o ps_lines(procs, k + 1)

\* One 'for line in lines' pass of get_process_tree_memory_native.
RECURSIVE native_pass(_, _, _, _)
native_pass(procs, lines, i, acc) ==
    IF i > Len(lines) THEN acc
    ELSE LET child_pid == lines[i]
             parent_pid == procs[child_pid].ppid
             rss == procs[child_pid].rss
         IN  IF parent_pid \in acc.descendants /\ child_pid \notin acc.descendants
             THEN native_pass(procs, lines, i + 1,
                              [descendants |-> acc.descendants \cup {child_pid},
                               total_rss_kb |-> acc.total_rss_kb + rss,
                               found_new |-> TRUE])
             ELSE native_pass(procs, lines, i + 1, acc)

\* 'while found_new'
RECURSIVE native_loop(_, _, _)
native_loop(procs, lines, acc) ==
    LET r == native_pass(procs, lines, 1, [acc EXCEPT !.found_new = FALSE])
    IN  IF r.found_new THEN native_loop(procs, lines, r) ELSE r

get_process_tree_memory_native(procs, pid) ==
    native_loop(procs, ps_lines(procs, 1),
                [descendants |-> {pid}, total_rss_kb |-> 0, found_new |-> TRUE]).total_rss_kb

\* sum(...) over the pids of a set
RECURSIVE SumRss(_, _)
SumRss(procs, S) ==
    IF S = {} THEN 0
    ELSE LET k == CHOOSE x \in S : TRUE
         IN  procs[k].rss + SumRss(procs, S \ {k})

\* ps -o rss= -g pgid, summed
get_process_tree_memory(procs, pid) ==
    LET pgid == procs[pid].pgid
    IN  SumRss(procs, {k \in TreePids : procs[k].present /\ procs[k].pgid = pgid})

\* monitor_memory_usage_native reads the tree's memory.
MeasureNative ==
    /\ pstree.pc = "ps"
    /\ pstree' = [pstree EXCEPT
                     !.pc = "native",
                     !.total_kb = get_process_tree_memory_native(pstree.procs, RootPid)]
    /\ TreeFrame

\* monitor_and_kill reads the tree's memory.
MeasureSandbox ==
    /\ pstree.pc = "ps"
    /\ pstree' = [pstree EXCEPT
                     !.pc = "sandbox",
                     !.total_kb = get_process_tree_memory(pstree.procs, RootPid)]
    /\ TreeFrame

NextTree == MeasureNative \/ MeasureSandbox

SpecTree == InitTree /\ [][NextTree]_vars

\* The root child and its transitive descendants.
TreeOf(procs, pid) ==
    {pid} \cup {k \in TreePids : IsUnder(procs, k, pid, MaxTreeProcs)}

\* C39: the value a monitor compares with the limit is the sum of the
\* resident set sizes of the root child and of all its transitive
\* descendants, each counted once.
C39_TreeMemoryIsSum ==
    pstree.pc \in {"native", "sandbox"} =>
        pstree.total_kb = SumRss(pstree.procs, TreeOf(pstree.procs, RootPid))


\* ---------------------------------------------------------------- SpecMeta
\* Meta-Learning's analyze_generation (meta_learning.py), applied to a ledger
\* with rows of two generations.

MaxMetaRows == 3
MaxGeneration == 2

MetaIds == <<"gen01-001", "gen02-001", "gen01-002", "gen02-002">>

\* What a candidate's row can hold besides its id.
MetaFields ==
    [based : {"", "baseline-000"}, perf : {"", "0.5", "2.5"},
     status : {"complete", "failed", "pending"}]

\* The baseline's row: none, or complete with a performance or without.
MetaParents ==
    {<<>>} \cup {<<Row("baseline-000", "", "Original algorithm.py performance", p, "complete")>> :
                    p \in {"", "1.5"}}

InitMeta ==
    /\ \E n \in 0..Min(MaxMetaRows, Len(MetaIds)) :
          \E parent \in MetaParents, f \in [1..n -> MetaFields] :
             csv = <<HeaderRow>> \o parent \o
                   [k \in 1..n |-> Row(MetaIds[k], f[k].based, "idea", f[k].perf, f[k].status)]
    /\ pre = <<>>
    /\ op = "init"
    /\ ret = None
    /\ harness = HarnessIdle
    /\ backoff = BackoffIdle
    /\ workerpool = PoolIdle
    /\ pstree = TreeIdle
    /\ LockIdle
    /\ SysIdle

\* The rows analyze_generation's loop appends to algorithms, as positions
\* of the ledger: of the generation, complete, with a numeric performance.
analysed_rows(rows, generation) ==
    {i \in DataIdx(rows) :
        /\ startswith(clean_id(rows[i].id), gen_prefix(generation) \o "-")
        /\ lower(strip(rows[i].status)) \notin {"pending", "running", ""}
        /\ lower(strip(rows[i].status)) = "complete"
        /\ is_float(rows[i].perf)}

\* parent_score, in tenths: the parent's performance, 0.0 without a parent
\* id, a parent row or a numeric performance of it.
parent_score(rows, row) ==
    LET parent_id == strip(row.based)
        parent_info == get_candidate_info(rows, parent_id)
    IN  IF parent_id # "" /\ parent_info # None /\ is_float(parent_info.performance)
        THEN float_tenths(parent_info.performance)
        ELSE 0

\* improvement = performance - parent_score, in tenths
improvement(rows, i) == float_tenths(rows[i].perf) - parent_score(rows, rows[i])

\* analyze_generation: the summary, None without a row to analyse.
analyze_generation(rows, generation) ==
    LET A == analysed_rows(rows, generation)
        successful == Cardinality({i \in A : improvement(rows, i) > 0})
        \* algorithms.sort(key=improvement, reverse=True) is stable
        best == CHOOSE i \in A : \A j \in A :
                    \/ improvement(rows, i) > improvement(rows, j)
                    \/ improvement(rows, i) = improvement(rows, j) /\ i <= j
        worst == CHOOSE i \in A : \A j \in A :
                    \/ improvement(rows, i) < improvement(rows, j)
                    \/ improvement(rows, i) = improvement(rows, j) /\ i >= j
    IN  IF rows = <<>> \/ A = {} THEN None
        ELSE [generation |-> generation,
              total_algorithms |-> Cardinality(A),
              successful |-> successful,
              failed |-> Cardinality(A) - successful,
              best_id |-> clean_id(rows[best].id),
              best_improvement |-> improvement(rows, best),
              worst_id |-> clean_id(rows[worst].id),
              worst_improvement |-> improvement(rows, worst)]

\* process_generation analyses a generation.
AnalyzeGeneration ==
    /\ op = "init"
    /\ \E generation \in 1..MaxGeneration :
          /\ pre' = <<generation>>
          /\ ret' = analyze_generation(csv, generation)
    /\ op' = "analyze_generation"
    /\ UNCHANGED <<csv, harness, backoff, workerpool, pstree, lockVars, sysVars>>

NextMeta == AnalyzeGeneration

SpecMeta == InitMeta /\ [][NextMeta]_vars

\* The candidates of a generation: the rows whose id has its prefix.
OfGeneration(rows, generation) ==
    {i \in DataIdx(rows) : startswith(clean_id(rows[i].id), gen_prefix(generation) \o "-")}

\* The candidates that are complete with a numeric performance.
Scored(rows, generation) ==
    {i \in OfGeneration(rows, generation) :
        lower(strip(rows[i].status)) = "complete" /\ is_float(rows[i].perf)}

\* C40: the summary of a generation has total = the number of the
\* generation's candidates, successes = the number that improved on their
\* parent (a missing parent score counting as 0), failures = the number with
\* improvement <= 0 or without a complete status, and successes + failures =
\* total.
C40_SummaryCounts ==
    (op = "analyze_generation" /\ ret # None) =>
        LET g == ret.generation
            S == {i \in Scored(csv, g) : improvement(csv, i) > 0}
        IN  /\ ret.total_algorithms = Cardinality(OfGeneration(csv, g))
            /\ ret.successful = Cardinality(S)
            /\ ret.failed = Cardinality(OfGeneration(csv, g) \ S)
            /\ ret.successful + ret.failed = ret.total_algorithms

=============================================================================
